---------------------------- MODULE Spec2Model ----------------------------
(***************************************************************************)
(* StegaScan: the byte-signature scanner (analyzers/magic_bytes_analyzer), *)
(* the lazy video frame sequence (parsers/video_parser), the two front     *)
(* ends (steg_cli/main, stegascan-api/analysis) and their evidence         *)
(* aggregators (finalize_summary).                                         *)
(*                                                                         *)
(* Text is a sequence of one-character strings, so that to_lowercase,      *)
(* to_uppercase and contains are computed and not assumed.  A file is a    *)
(* sequence of bytes 0..255; offsets are 0-based as in the source, so the  *)
(* byte at offset p is data[p + 1].                                        *)
(***************************************************************************)
EXTENDS Integers, Sequences, FiniteSets, TLC

VARIABLES
    frontend,   \* "cli" (steg_cli/main.rs) or "api" (stegascan-api/analysis.rs)
    pc,         \* position of the run in main / run_full_analysis
    data,       \* the bytes of the scanned file
    ext,        \* the file name's extension (Option<String>)
    deep,       \* what Binwalk::scan returns for the file
    scan,       \* Result<MagicBytesAnalysis, MagicBytesError>, or a panic
    outcome,    \* what the parsers and format analyzers returned
    report,     \* SteganalysisReport / AnalysisResponse
    finalized,  \* number of finalize_summary calls so far
    it,         \* VideoFrameIterator and the decoder behind it
    loop,       \* locals of the frame loop
    input,      \* what an analyzer is called on (an image, a bit sequence)
    result      \* what the analyzer returned

vars == <<frontend, pc, data, ext, deep, scan, outcome, report, finalized, it, loop,
          input, result>>

-----------------------------------------------------------------------------
(* Text *)

UpperLetters == <<"A","B","C","D","E","F","G","H","I","J","K","L","M",
                  "N","O","P","Q","R","S","T","U","V","W","X","Y","Z">>
LowerLetters == <<"a","b","c","d","e","f","g","h","i","j","k","l","m",
                  "n","o","p","q","r","s","t","u","v","w","x","y","z">>

LowerChar(c) ==
    IF \E i \in 1..26 : UpperLetters[i] = c
    THEN LowerLetters[CHOOSE i \in 1..26 : UpperLetters[i] = c]
    ELSE c

UpperChar(c) ==
    IF \E i \in 1..26 : LowerLetters[i] = c
    THEN UpperLetters[CHOOSE i \in 1..26 : LowerLetters[i] = c]
    ELSE c

to_lowercase(s) == [i \in 1..Len(s) |-> LowerChar(s[i])]

to_uppercase(s) == [i \in 1..Len(s) |-> UpperChar(s[i])]

\* str::contains
contains(s, t) ==
    \E i \in 0..(Len(s) - Len(t)) : \A j \in 1..Len(t) : s[i + j] = t[j]

\* <[u8]>::starts_with on the slice data[pos..]
starts_with(bytes, pos, sig) ==
    /\ pos + Len(sig) <= Len(bytes)
    /\ \A j \in 1..Len(sig) : bytes[pos + j] = sig[j]

saturating_sub(a, b) == IF a >= b THEN a - b ELSE 0

-----------------------------------------------------------------------------
(* determine_file_category, categorize_file_type, is_complete_file_signature *)

ImageWords == { <<"j","p","e","g">>, <<"p","n","g">>, <<"g","i","f">>,
                <<"b","m","p">>, <<"t","i","f","f">>, <<"w","e","b","p">>,
                <<"i","m","a","g","e">> }
AudioWords == { <<"m","p","3">>, <<"w","a","v">>, <<"f","l","a","c">>,
                <<"o","g","g">>, <<"a","a","c">>, <<"a","u","d","i","o">> }
VideoWords == { <<"m","p","4">>, <<"a","v","i">>, <<"m","k","v">>,
                <<"w","e","b","m">>, <<"m","o","v">>, <<"v","i","d","e","o">> }
TextWords == { <<"p","d","f">>, <<"d","o","c">>, <<"t","x","t">>,
               <<"r","t","f">>, <<"x","m","l">>, <<"h","t","m","l">> }
ArchiveWords == { <<"z","i","p">>, <<"r","a","r">>, <<"t","a","r">>,
                  <<"7","z">>, <<"g","z","i","p">>,
                  <<"a","r","c","h","i","v","e">> }
ExecutableWords == { <<"e","x","e">>, <<"e","l","f">>,
                     <<"m","a","c","h","-","o">>,
                     <<"e","x","e","c","u","t","a","b","l","e">> }

Categories == {"Image", "Audio", "Video", "Text/Document", "Archive",
               "Executable", "Other"}

HasWord(desc_lower, words) == \E w \in words : contains(desc_lower, w)

determine_file_category(description) ==
    LET desc_lower == to_lowercase(description) IN
    IF HasWord(desc_lower, ImageWords) THEN "Image"
    ELSE IF HasWord(desc_lower, AudioWords) THEN "Audio"
    ELSE IF HasWord(desc_lower, VideoWords) THEN "Video"
    ELSE IF HasWord(desc_lower, TextWords) THEN "Text/Document"
    ELSE IF HasWord(desc_lower, ArchiveWords) THEN "Archive"
    ELSE IF HasWord(desc_lower, ExecutableWords) THEN "Executable"
    ELSE "Other"

\* FormatSummary::default
EmptySummary == [c \in Categories |-> 0]

\* summary.<category>_files += 1
categorize_file_type(description, summary) ==
    LET c == determine_file_category(description) IN
    [summary EXCEPT ![c] = @ + 1]

CompleteWords == { <<"h","e","a","d","e","r">>,
                   <<"j","p","e","g"," ","i","m","a","g","e">>,
                   <<"p","n","g"," ","i","m","a","g","e">>,
                   <<"g","i","f"," ","i","m","a","g","e">>,
                   <<"p","d","f"," ","d","o","c","u","m","e","n","t">>,
                   <<"z","i","p"," ","a","r","c","h","i","v","e">>,
                   <<"r","a","r"," ","a","r","c","h","i","v","e">>,
                   <<"a","u","d","i","o">>, <<"v","i","d","e","o">> }

is_complete_file_signature(description) ==
    HasWord(to_lowercase(description), CompleteWords)

-----------------------------------------------------------------------------
(* The manual signature table and the labels of detect_format_at_offset *)

RIFF_container == <<"R","I","F","F"," ","c","o","n","t","a","i","n","e","r">>
ID3_tag == <<"I","D","3"," ","t","a","g">>
FLAC_audio == <<"F","L","A","C"," ","a","u","d","i","o">>
OGG_audio == <<"O","G","G"," ","a","u","d","i","o">>
JPEG_image_JFIF == <<"J","P","E","G"," ","i","m","a","g","e"," ","(","J","F","I","F",")">>
JPEG_image_Exif == <<"J","P","E","G"," ","i","m","a","g","e"," ","(","E","x","i","f",")">>
PNG_image == <<"P","N","G"," ","i","m","a","g","e">>
GIF87a_image == <<"G","I","F","8","7","a"," ","i","m","a","g","e">>
GIF89a_image == <<"G","I","F","8","9","a"," ","i","m","a","g","e">>
PDF_document == <<"P","D","F"," ","d","o","c","u","m","e","n","t">>
ZIP_archive == <<"Z","I","P"," ","a","r","c","h","i","v","e">>
RAR_archive == <<"R","A","R"," ","a","r","c","h","i","v","e">>
SevenZip_archive == <<"7","-","Z","i","p"," ","a","r","c","h","i","v","e">>
Webm_mkv == <<"W","e","b","m","/","m","k","v">>
Mp4 == <<"M","p","4">>
WAV_audio_RIFF == <<"W","A","V"," ","a","u","d","i","o"," ","(","R","I","F","F","/","W","A","V","E",")">>
AVI_video_RIFF == <<"A","V","I"," ","v","i","d","e","o"," ","(","R","I","F","F",")">>
WebP_image_RIFF == <<"W","e","b","P"," ","i","m","a","g","e"," ","(","R","I","F","F",")">>
WAV_audio == <<"W","A","V"," ","a","u","d","i","o">>
AVI_video == <<"A","V","I"," ","v","i","d","e","o">>
WEBP_image == <<"W","E","B","P"," ","i","m","a","g","e">>
JPEG_image == <<"J","P","E","G"," ","i","m","a","g","e">>
GIF_image == <<"G","I","F"," ","i","m","a","g","e">>
MP3_audio_with_ID3 == <<"M","P","3"," ","a","u","d","i","o"," ","(","w","i","t","h"," ","I","D","3",")">>
MP3_audio == <<"M","P","3"," ","a","u","d","i","o">>
UNKNOWN == <<"U","N","K","N","O","W","N">>

\* b"WAVE", b"AVI ", b"WEBP"
WAVE == <<87, 65, 86, 69>>
AVI_ == <<65, 86, 73, 32>>
WEBP == <<87, 69, 66, 80>>

SigRIFF == <<82, 73, 70, 70>>
SigID3 == <<73, 68, 51>>
SigFLAC == <<102, 76, 97, 67>>
SigOGG == <<79, 103, 103, 83>>
SigJFIF == <<255, 216, 255, 224>>
SigExif == <<255, 216, 255, 225>>
SigPNG == <<137, 80, 78, 71, 13, 10, 26, 10>>
SigGIF87a == <<71, 73, 70, 56, 55, 97>>
SigGIF89a == <<71, 73, 70, 56, 57, 97>>
SigPDF == <<37, 80, 68, 70, 45>>
SigZIP == <<80, 75, 3, 4>>
SigRAR == <<82, 97, 114, 33, 26, 7>>
Sig7z == <<55, 122, 188, 175, 39, 28>>
SigEBML == <<26, 69, 223, 163>>
SigFtyp == <<102, 116, 121, 112>>

\* (signature, description, should_scan), in the order of the source
signatures == <<
    <<SigRIFF, RIFF_container, TRUE>>,
    <<SigID3, ID3_tag, TRUE>>,
    <<SigFLAC, FLAC_audio, TRUE>>,
    <<SigOGG, OGG_audio, TRUE>>,
    <<SigJFIF, JPEG_image_JFIF, TRUE>>,
    <<SigExif, JPEG_image_Exif, TRUE>>,
    <<SigPNG, PNG_image, TRUE>>,
    <<SigGIF87a, GIF87a_image, TRUE>>,
    <<SigGIF89a, GIF89a_image, TRUE>>,
    <<SigPDF, PDF_document, TRUE>>,
    <<SigZIP, ZIP_archive, TRUE>>,
    <<SigRAR, RAR_archive, TRUE>>,
    <<Sig7z, SevenZip_archive, TRUE>>,
    <<SigEBML, Webm_mkv, TRUE>>,
    <<SigFtyp, Mp4, TRUE>> >>

EmbeddedFile(o, d, t, c) ==
    [offset |-> o, description |-> d, file_type |-> t, confidence |-> c]

-----------------------------------------------------------------------------
(* is_likely_real_file, manual_signature_scan, detect_format_at_offset *)

SectorSmall == 512
SectorLarge == 1024

\* The padding rule alone: without the test of the sector boundaries.
PaddingOnly(bytes, offset) ==
    \/ offset = 0
    \/ /\ offset >= 4
       /\ \/ \A k \in 1..4 : bytes[saturating_sub(offset, 4) + k] = 0
          \/ \A k \in 1..4 : bytes[saturating_sub(offset, 4) + k] = 255

is_likely_real_file(bytes, offset) ==
    IF offset = 0 THEN TRUE
    ELSE IF /\ offset >= 4
            /\ \/ \A k \in 1..4 : bytes[saturating_sub(offset, 4) + k] = 0
               \/ \A k \in 1..4 : bytes[saturating_sub(offset, 4) + k] = 255
    THEN TRUE
    ELSE offset % SectorSmall = 0 \/ offset % SectorLarge = 0

\* What one hit of a signature at pos appends to results.
HitResults(bytes, pos, sig, description) ==
    IF contains(description, <<"R","I","F","F">>)
    THEN IF pos + 12 <= Len(bytes)
         THEN LET riff_type == SubSeq(bytes, pos + 9, pos + 12) IN
              IF riff_type = WAVE
              THEN << EmbeddedFile(pos, WAV_audio_RIFF, "Audio", "high") >>
              ELSE IF riff_type = AVI_
              THEN << EmbeddedFile(pos, AVI_video_RIFF, "Video", "high") >>
              ELSE IF riff_type = WEBP
              THEN << EmbeddedFile(pos, WebP_image_RIFF, "Image", "high") >>
              ELSE << >>
         ELSE << >>
    ELSE IF pos = 0 \/ is_likely_real_file(bytes, pos)
         THEN << EmbeddedFile(pos, description,
                              determine_file_category(description), "medium") >>
         ELSE << >>

\* The inner while loop for one signature over the positions lo..hi, entered
\* with pos: pos += 1 up to the first position where data[pos..] starts with
\* the signature, one hit there, then pos += signature.len().  hits are the
\* occurrences of the signature in lo..hi; the loop over lo..hi is the loop
\* over its first half followed by the loop over its second half.
RECURSIVE ScanRange(_, _, _, _, _, _, _)
ScanRange(bytes, sig, description, hits, lo, hi, pos) ==
    LET live == {p \in hits : p >= pos} IN
    IF live = {} THEN [results |-> << >>, pos |-> pos]
    ELSE IF lo = hi
    THEN [results |-> HitResults(bytes, lo, sig, description),
          pos |-> lo + Len(sig)]
    ELSE LET mid == (lo + hi) \div 2
             first == ScanRange(bytes, sig, description,
                                {p \in live : p <= mid}, lo, mid, pos)
             second == ScanRange(bytes, sig, description,
                                 {p \in live : p > mid}, mid + 1, hi, first.pos)
         IN  [results |-> first.results \o second.results, pos |-> second.pos]

ScanFrom(bytes, sig, description, occurrences, pos, results) ==
    results \o ScanRange(bytes, sig, description, occurrences,
                         0, Len(bytes), pos).results

ScanSignature(bytes, sig, description, pos, results) ==
    LET last == saturating_sub(Len(bytes), Len(sig))
        occurrences == {p \in pos..last : starts_with(bytes, p, sig)}
    IN  ScanFrom(bytes, sig, description, occurrences, pos, results)

\* The outer for loop, from table entry k on.
RECURSIVE ScanTable(_, _, _)
ScanTable(bytes, k, results) ==
    IF k > Len(signatures) THEN results
    ELSE IF ~signatures[k][3] THEN ScanTable(bytes, k + 1, results)
    ELSE ScanTable(bytes, k + 1,
                   ScanSignature(bytes, signatures[k][1], signatures[k][2], 0, results))

manual_signature_scan(bytes) == ScanTable(bytes, 1, << >>)

\* A label, or a panic: the slice data[offset + 8..offset + 12] is taken when
\* data.len() > offset + 8, and is out of range when data.len() < offset + 12.
Label(l) == [panic |-> FALSE, label |-> l]
SlicePanic == [panic |-> TRUE, label |-> << >>]

detect_format_at_offset(bytes, offset) ==
    IF offset >= Len(bytes) \/ Len(bytes) < offset + 4 THEN Label(UNKNOWN)
    ELSE IF starts_with(bytes, offset, SigRIFF)
    THEN IF Len(bytes) > offset + 8
         THEN IF Len(bytes) < offset + 12 THEN SlicePanic
              ELSE LET riff_type == SubSeq(bytes, offset + 9, offset + 12) IN
                   IF riff_type = WAVE THEN Label(WAV_audio)
                   ELSE IF riff_type = AVI_ THEN Label(AVI_video)
                   ELSE IF riff_type = WEBP THEN Label(WEBP_image)
                   ELSE Label(RIFF_container)
         ELSE Label(RIFF_container)
    ELSE IF starts_with(bytes, offset, <<255, 216, 255>>) THEN Label(JPEG_image)
    ELSE IF starts_with(bytes, offset, <<137, 80, 78, 71>>) THEN Label(PNG_image)
    ELSE IF starts_with(bytes, offset, <<71, 73, 70, 56>>) THEN Label(GIF_image)
    ELSE IF starts_with(bytes, offset, <<37, 80, 68, 70>>) THEN Label(PDF_document)
    ELSE IF starts_with(bytes, offset, <<80, 75, 3, 4>>) THEN Label(ZIP_archive)
    ELSE IF starts_with(bytes, offset, <<73, 68, 51>>) THEN Label(MP3_audio_with_ID3)
    ELSE IF \/ starts_with(bytes, offset, <<255, 251>>)
            \/ starts_with(bytes, offset, <<255, 243>>)
            \/ starts_with(bytes, offset, <<255, 242>>)
    THEN Label(MP3_audio)
    ELSE IF starts_with(bytes, offset, SigFLAC) THEN Label(FLAC_audio)
    ELSE Label(UNKNOWN)

-----------------------------------------------------------------------------
(* MagicBytesAnalyzerWithPath::analyze *)

\* sig.confidence (u8): 0..100 => "low", 100..200 => "medium", 200..=255 => "high"
ConfidenceLabel(c) ==
    IF c < 100 THEN "low" ELSE IF c < 200 THEN "medium" ELSE "high"

\* The loop over binwalk_results.
RECURSIVE FromDeepScan(_)
FromDeepScan(sigs) ==
    IF sigs = << >> THEN << >>
    ELSE << EmbeddedFile(Head(sigs).offset, Head(sigs).name,
                         determine_file_category(Head(sigs).name),
                         ConfidenceLabel(Head(sigs).confidence)) >>
         \o FromDeepScan(Tail(sigs))

\* "Only add if not already found by binwalk at same offset"
RECURSIVE MergeManual(_, _)
MergeManual(all_results, manual_results) ==
    IF manual_results = << >> THEN all_results
    ELSE LET m == Head(manual_results) IN
         IF ~\E i \in 1..Len(all_results) : all_results[i].offset = m.offset
         THEN MergeManual(Append(all_results, m), Tail(manual_results))
         ELSE MergeManual(all_results, Tail(manual_results))

\* Insert r after every element whose offset is <= r.offset (the sort is stable).
RECURSIVE InsertByOffset(_, _)
InsertByOffset(sorted, r) ==
    IF sorted = << >> THEN << r >>
    ELSE IF Head(sorted).offset <= r.offset
         THEN << Head(sorted) >> \o InsertByOffset(Tail(sorted), r)
         ELSE << r >> \o sorted

\* all_results.sort_by_key(|r| r.offset)
RECURSIVE sort_by_offset(_)
sort_by_offset(results) ==
    IF results = << >> THEN << >>
    ELSE InsertByOffset(sort_by_offset(SubSeq(results, 1, Len(results) - 1)),
                        results[Len(results)])

\* Lines 88-121: deep-scan results, then the manual results not yet present, sorted.
MergedResults(bytes, sigs) ==
    sort_by_offset(MergeManual(FromDeepScan(sigs), manual_signature_scan(bytes)))

\* Lines 127-139.  A panic of detect_format_at_offset is a panic of analyze.
PrimaryFormat(bytes, all_results) ==
    IF all_results # << >> /\ all_results[1].offset = 0
    THEN Label(all_results[1].description)
    ELSE detect_format_at_offset(bytes, 0)

\* Line 130: the first result, when it is at offset 0, is counted here.
CountPrimary(all_results, summary) ==
    IF all_results # << >> /\ all_results[1].offset = 0
    THEN categorize_file_type(all_results[1].description, summary)
    ELSE summary

\* Line 144: every result is counted in the loop over all_results.
RECURSIVE CountAll(_, _)
CountAll(all_results, summary) ==
    IF all_results = << >> THEN summary
    ELSE CountAll(Tail(all_results),
                  categorize_file_type(Head(all_results).description, summary))

\* A tally that keeps both counts of the first result (no adjustment).
KeepDuplicate(all_results, summary) == summary

\* Lines 158-184: one is taken off the category of the first result at offset 0.
AdjustPrimary(all_results, summary) ==
    IF all_results # << >> /\ all_results[1].offset = 0
    THEN LET first_type == determine_file_category(all_results[1].description) IN
         [summary EXCEPT ![first_type] = saturating_sub(@, 1)]
    ELSE summary

FormatSummaryOf(all_results) ==
    AdjustPrimary(all_results,
                  CountAll(all_results, CountPrimary(all_results, EmptySummary)))

\* The entries of suspicious_findings: the format string, its number argument
\* (0 when it has none) and its text arguments.  Nothing in the program parses
\* the formatted string back.
CompleteFinding(r) ==
    [kind |-> "Complete file signature found at offset 0x{:X}: {}",
     offset |-> r.offset, text |-> r.description]
MismatchFinding(expected, primary) ==
    [kind |-> "Format mismatch: extension says {}, detected format is {}",
     offset |-> 0, text |-> expected \o <<"/">> \o primary]
MultipleFinding(n) ==
    [kind |-> "Multiple file signatures detected ({} total)",
     offset |-> n, text |-> << >>]
PolyglotFinding ==
    [kind |-> "POLYGLOT FILE DETECTED: Contains multiple media types (possible steganography)",
     offset |-> 0, text |-> << >>]

\* Lines 142-156.
RECURSIVE CompleteFindings(_)
CompleteFindings(all_results) ==
    IF all_results = << >> THEN << >>
    ELSE (IF Head(all_results).offset > 0
             /\ is_complete_file_signature(Head(all_results).description)
          THEN << CompleteFinding(Head(all_results)) >> ELSE << >>)
         \o CompleteFindings(Tail(all_results))

NoExt == [some |-> FALSE, value |-> << >>]
SomeExt(e) == [some |-> TRUE, value |-> e]

\* path.extension().map(|ext| ext.to_uppercase())
ExpectedFormat(extension) ==
    IF extension.some THEN SomeExt(to_uppercase(extension.value)) ELSE NoExt

\* A mismatch rule that asks the upper-case format to be the extension itself.
MismatchUnlessEqual(expected_format, primary_format) ==
    IF /\ expected_format.some
       /\ to_uppercase(primary_format) # expected_format.value
       /\ primary_format # UNKNOWN
    THEN << MismatchFinding(expected_format.value, primary_format) >>
    ELSE << >>

\* Lines 186-195.
MismatchFindings(expected_format, primary_format) ==
    IF /\ expected_format.some
       /\ ~contains(to_uppercase(primary_format), expected_format.value)
       /\ primary_format # UNKNOWN
    THEN << MismatchFinding(expected_format.value, primary_format) >>
    ELSE << >>

\* A polyglot rule that asks for audio and image only.
AudioAndImage(format_summary) ==
    format_summary["Audio"] > 0 /\ format_summary["Image"] > 0

\* Lines 207-217.
is_polyglot(format_summary) ==
    /\ format_summary["Audio"] > 0
    /\ format_summary["Image"] > 0
    /\ (format_summary["Video"] > 0 \/ format_summary["Text/Document"] > 0)

\* Lines 219-222.
HasSuspiciousData(all_results) ==
    \E i \in 1..Len(all_results) :
        /\ all_results[i].offset > 0
        /\ is_complete_file_signature(all_results[i].description)

EmptyFile == [status |-> "err"]
AnalyzePanic == [status |-> "panic"]

analyze(bytes, extension, sigs) ==
    IF bytes = << >> THEN EmptyFile
    ELSE
    LET expected_format == ExpectedFormat(extension)
        all_results == MergedResults(bytes, sigs)
        primary == PrimaryFormat(bytes, all_results)
        format_summary == FormatSummaryOf(all_results)
        has_multiple_formats == Len(all_results) > 1
    IN  IF primary.panic THEN AnalyzePanic
        ELSE [status |-> "ok",
              primary_format |-> primary.label,
              expected_format |-> expected_format,
              total_signatures_found |-> Len(all_results),
              embedded_files |-> all_results,
              has_multiple_formats |-> has_multiple_formats,
              has_suspicious_data |-> HasSuspiciousData(all_results),
              suspicious_findings |->
                  CompleteFindings(all_results)
                  \o MismatchFindings(expected_format, primary.label)
                  \o (IF has_multiple_formats
                      THEN << MultipleFinding(Len(all_results)) >> ELSE << >>)
                  \o (IF is_polyglot(format_summary)
                      THEN << PolyglotFinding >> ELSE << >>),
              format_summary |-> format_summary]

-----------------------------------------------------------------------------
(* The report of both front ends: SteganalysisReport (steg_cli/json_report.rs) *)
(* and AnalysisResponse (stegascan-api/models.rs)                              *)

None == [some |-> FALSE]
Some(v) == [some |-> TRUE, value |-> v]

\* MagicBytesReport { .. } as main.rs 181-208 and analysis.rs 79-106 fill it.
MagicBytesReport(analysis) ==
    [primary_format |-> analysis.primary_format,
     expected_format |-> analysis.expected_format,
     total_signatures_found |-> analysis.total_signatures_found,
     has_multiple_formats |-> analysis.has_multiple_formats,
     has_suspicious_data |-> analysis.has_suspicious_data,
     format_summary |-> analysis.format_summary,
     embedded_files |-> analysis.embedded_files,
     suspicious_findings |-> analysis.suspicious_findings]

\* FormatSpecificAnalysis.  The CLI's VideoAnalysis has no suspicious_frames.
UnknownAnalysis == [type |-> "Unknown"]
TextAnalysis == [type |-> "Text"]
ImageAnalysis(exif, lsb) ==
    [type |-> "Image", exif_metadata |-> exif, lsb_analysis |-> lsb]
AudioAnalysis(id3, spectrogram) ==
    [type |-> "Audio", id3_analysis |-> id3, spectrogram_analysis |-> spectrogram]
VideoAnalysisCli(frames, errors) ==
    [type |-> "Video", frames_processed |-> frames, errors_encountered |-> errors]
VideoAnalysisApi(frames, errors, suspicious) ==
    [type |-> "Video", frames_processed |-> frames, errors_encountered |-> errors,
     suspicious_frames |-> suspicious]

\* An entry of threat_indicators that is not copied from suspicious_findings:
\* a fixed string, or format!("Found {} suspicious video frames", n).
Indicator(msg) == [kind |-> msg, offset |-> 0, text |-> << >>]
FoundFrames(n) == [kind |-> "Found {} suspicious video frames", offset |-> n, text |-> << >>]

\* SteganalysisReport::new, and the AnalysisResponse literal of run_full_analysis
NewSummary ==
    [steganography_detected |-> FALSE, confidence_level |-> "low",
     threat_indicators |-> << >>, recommendations |-> << >>]

NewReport ==
    [magic_bytes_analysis |-> None,
     format_specific_analysis |-> UnknownAnalysis,
     summary |-> NewSummary]

set_magic_bytes_analysis(r, analysis) ==
    [r EXCEPT !.magic_bytes_analysis = Some(analysis)]

set_format_analysis(r, analysis) ==
    [r EXCEPT !.format_specific_analysis = analysis]

\* A confidence with the High threshold at two indicators.
ConfidenceFromTwo(indicators) ==
    IF Len(indicators) >= 2 THEN "high"
    ELSE IF Len(indicators) >= 1 THEN "medium"
    ELSE "low"

\* confidence from indicators.len()
ConfidenceOf(indicators) ==
    IF Len(indicators) >= 3 THEN "high"
    ELSE IF Len(indicators) >= 1 THEN "medium"
    ELSE "low"

-----------------------------------------------------------------------------
(* SteganalysisReport::finalize_summary (CLI) *)

CliMagicDetected(magic) ==
    magic.some /\ (magic.value.has_suspicious_data
                   \/ magic.value.suspicious_findings # << >>)

\* The same indicators with the findings put first.
FindingsFirst(magic) ==
    IF ~magic.some THEN << >>
    ELSE magic.value.suspicious_findings
         \o (IF magic.value.has_suspicious_data
             THEN << Indicator("Suspicious data found in file structure") >> ELSE << >>)
         \o (IF magic.value.has_multiple_formats
             THEN << Indicator("Multiple file formats detected") >> ELSE << >>)

CliMagicIndicators(magic) ==
    IF ~magic.some THEN << >>
    ELSE (IF magic.value.has_suspicious_data
          THEN << Indicator("Suspicious data found in file structure") >> ELSE << >>)
         \o (IF magic.value.has_multiple_formats
             THEN << Indicator("Multiple file formats detected") >> ELSE << >>)
         \o (IF magic.value.suspicious_findings # << >>
             THEN magic.value.suspicious_findings ELSE << >>)

CliFormatDetected(format) ==
    \/ /\ format.type = "Image"
       /\ format.lsb_analysis.some /\ format.lsb_analysis.value.is_suspicious
    \/ /\ format.type = "Audio"
       /\ format.spectrogram_analysis.some
       /\ format.spectrogram_analysis.value.hidden_message_detected

CliFormatIndicators(format) ==
    IF format.type = "Image"
    THEN (IF format.lsb_analysis.some /\ format.lsb_analysis.value.is_suspicious
          THEN << Indicator("LSB analysis indicates possible hidden data") >>
          ELSE << >>)
         \o (IF format.exif_metadata.some
                /\ format.exif_metadata.value.suspicious_fields # << >>
             THEN << Indicator("Suspicious EXIF metadata found") >> ELSE << >>)
    ELSE IF format.type = "Audio"
    THEN (IF format.spectrogram_analysis.some
             /\ format.spectrogram_analysis.value.hidden_message_detected
          THEN << Indicator("Spectrogram analysis detected hidden patterns") >>
          ELSE << >>)
         \o (IF format.id3_analysis.some
                /\ format.id3_analysis.value.suspicious_frames # << >>
             THEN << Indicator("Suspicious ID3 metadata found") >> ELSE << >>)
    ELSE << >>

CliRecommendations(steg_detected) ==
    IF steg_detected
    THEN << "Further investigation recommended",
            "Consider using specialized steganography tools",
            "Verify file source and integrity" >>
    ELSE << "No obvious steganography detected", "File appears to be clean" >>

CliSummary(r) ==
    LET indicators == CliMagicIndicators(r.magic_bytes_analysis)
                      \o CliFormatIndicators(r.format_specific_analysis)
        steg_detected == CliMagicDetected(r.magic_bytes_analysis)
                         \/ CliFormatDetected(r.format_specific_analysis)
    IN  [steganography_detected |-> steg_detected,
         confidence_level |-> ConfidenceOf(indicators),
         threat_indicators |-> indicators,
         recommendations |-> CliRecommendations(steg_detected)]

finalize_summary_cli(r) == [r EXCEPT !.summary = CliSummary(r)]

-----------------------------------------------------------------------------
(* finalize_summary (API) *)

ApiMagicDetected(magic) == magic.some /\ magic.value.has_suspicious_data

ApiMagicIndicators(magic) ==
    IF ~magic.some THEN << >>
    ELSE (IF magic.value.has_suspicious_data
          THEN << Indicator("Suspicious data in file structure") >> ELSE << >>)
         \o (IF magic.value.has_multiple_formats
             THEN << Indicator("Multiple file formats detected") >> ELSE << >>)
         \o magic.value.suspicious_findings

ApiFormatDetected(format) ==
    \/ /\ format.type = "Image"
       /\ format.lsb_analysis.some /\ format.lsb_analysis.value.is_suspicious
    \/ /\ format.type = "Audio"
       /\ format.spectrogram_analysis.some
       /\ format.spectrogram_analysis.value.hidden_message_detected
    \/ /\ format.type = "Video"
       /\ format.suspicious_frames # << >>

\* A format-specific check that sets the flag and pushes no indicator.
FlagWithoutIndicator(format) == << >>

ApiFormatIndicators(format) ==
    IF format.type = "Image"
    THEN IF format.lsb_analysis.some /\ format.lsb_analysis.value.is_suspicious
         THEN << Indicator("LSB analysis indicates hidden data") >> ELSE << >>
    ELSE IF format.type = "Audio"
    THEN IF format.spectrogram_analysis.some
            /\ format.spectrogram_analysis.value.hidden_message_detected
         THEN << Indicator("Spectrogram analysis detected patterns") >> ELSE << >>
    ELSE IF format.type = "Video"
    THEN IF format.suspicious_frames # << >>
         THEN << FoundFrames(Len(format.suspicious_frames)) >> ELSE << >>
    ELSE << >>

ApiRecommendations(steg_detected) ==
    IF steg_detected
    THEN << "Further investigation recommended", "Consider specialized tools",
            "Verify file source" >>
    ELSE << "No obvious steganography detected" >>

ApiSummary(r) ==
    LET indicators == ApiMagicIndicators(r.magic_bytes_analysis)
                      \o ApiFormatIndicators(r.format_specific_analysis)
        steg_detected == ApiMagicDetected(r.magic_bytes_analysis)
                         \/ ApiFormatDetected(r.format_specific_analysis)
    IN  [steganography_detected |-> steg_detected,
         confidence_level |-> ConfidenceOf(indicators),
         threat_indicators |-> indicators,
         recommendations |-> ApiRecommendations(steg_detected)]

finalize_summary_api(r) == [r EXCEPT !.summary = ApiSummary(r)]

finalize_summary(fe, r) ==
    IF fe = "cli" THEN finalize_summary_cli(r) ELSE finalize_summary_api(r)

\* A report whose summary is put back to the one of a new report.
ResetSummary(r) == [r EXCEPT !.summary = NewSummary]

\* save_to_file(&self, ..) serialises the report and leaves it as it is.
save_to_file(r) == r

-----------------------------------------------------------------------------
(* VideoFrameIterator (parsers/video_parser.rs) and the decoder behind it     *)
(*                                                                             *)
(* A container is a finite sequence of packets.  What ffmpeg does with a      *)
(* packet is the packet's kind:                                                *)
(*   "other"    a packet of another stream than the video stream               *)
(*   "ok"       send_packet succeeds, one frame can be received at once        *)
(*   "odd"      as "ok"; VideoFrameAnalyzer finds the frame suspicious         *)
(*   "held"     send_packet succeeds, the frame is received only after EOF     *)
(*   "noscale"  send_packet succeeds, scaler.run fails on the frame            *)
(*   "bad"      send_packet fails whenever this packet is offered              *)
(* and send_eof either works or fails whenever it is called.                   *)

PacketKinds == {"other", "ok", "odd", "held", "noscale", "bad"}

\* Counters of the model stop at CountCap; only a run that never ends gets there.
CountCap == 16
Inc(n) == IF n < CountCap THEN n + 1 ELSE n
Log(seq, x) == IF Len(seq) < CountCap THEN Append(seq, x) ELSE seq

\* self.load_packets(10)
LoadCount == 10

Packet(p, k) == [pos |-> p, kind |-> k]
Frame(p, k) == [pos |-> p, kind |-> k]
NoFrame == Frame(0, "none")

\* VideoFrameIterator::new over a container.  `sent` logs the positions of the
\* packets handed to send_packet; yielded_ok and yielded_err count the items
\* that next has returned.
NewIterator(container, eof_fails) ==
    [input |-> [i \in 1..Len(container) |-> Packet(i, container[i])],
     eof_fails |-> eof_fails,
     packet_buffer |-> << >>,
     packet_index |-> 0,
     packets_exhausted |-> FALSE,
     flushing |-> FALSE,
     ready |-> << >>,
     held |-> << >>,
     sent |-> << >>,
     yielded_ok |-> 0,
     yielded_err |-> 0]

NoIterator == NewIterator(<< >>, FALSE)

IsVideoPacket(packet) == packet.kind # "other"

\* load_packets: the for loop over self.input.packets() pushes the packets of
\* the video stream and returns at the one that makes `loaded` reach count
\* (count >= 1); when the packets run out first, packets_exhausted is set.
load_packets(s, count) ==
    IF s.packets_exhausted THEN s
    ELSE LET n == Len(s.input)
             returns_at == {k \in 1..n :
                              /\ IsVideoPacket(s.input[k])
                              /\ Cardinality({i \in 1..k : IsVideoPacket(s.input[i])}) = count}
         IN  IF returns_at = {}
             THEN [s EXCEPT !.packet_buffer = @ \o SelectSeq(s.input, IsVideoPacket),
                            !.input = << >>,
                            !.packets_exhausted = TRUE]
             ELSE LET k == CHOOSE k \in returns_at : TRUE IN
                  [s EXCEPT !.packet_buffer =
                                @ \o SelectSeq(SubSeq(s.input, 1, k), IsVideoPacket),
                            !.input = SubSeq(s.input, k + 1, n)]

\* decode_frame: Ok(Some(frame)), Ok(None) or Err, and the iterator after it.
decode_frame(s) ==
    IF s.ready # << >>
    THEN LET f == Head(s.ready)
             after == [s EXCEPT !.ready = Tail(s.ready)]
         IN  IF f.kind # "noscale" THEN [result |-> "frame", frame |-> f, self |-> after]
             ELSE [result |-> "err", frame |-> NoFrame, self |-> after]
    ELSE [result |-> "none", frame |-> NoFrame, self |-> s]

\* decoder.send_packet(packet): whether it fails, and the iterator after it.
send_packet(s, packet) ==
    LET logged == [s EXCEPT !.sent = Log(@, packet.pos)] IN
    IF packet.kind = "bad" THEN [failed |-> TRUE, self |-> logged]
    ELSE IF packet.kind = "held"
    THEN [failed |-> FALSE,
          self |-> [logged EXCEPT !.held = Append(@, Frame(packet.pos, "ok"))]]
    ELSE [failed |-> FALSE,
          self |-> [logged EXCEPT !.ready = Append(@, Frame(packet.pos, packet.kind))]]

\* decoder.send_eof(): after it the decoder hands out the frames it held.
send_eof(s) ==
    IF s.eof_fails THEN [failed |-> TRUE, self |-> s]
    ELSE [failed |-> FALSE,
          self |-> [s EXCEPT !.ready = @ \o s.held, !.held = << >>]]

\* What a pass of the loop in next ends with: return Some(Ok(frame)), return
\* Some(Err(_)), return None, or another pass.
SomeOk(frame, s) ==
    [item |-> "ok", frame |-> frame, self |-> [s EXCEPT !.yielded_ok = Inc(@)]]
SomeErr(s) ==
    [item |-> "err", frame |-> NoFrame, self |-> [s EXCEPT !.yielded_err = Inc(@)]]
\* A return of None that takes the iterator back to decoding.
NoneAndRestart(s) ==
    [item |-> "none", frame |-> NoFrame, self |-> [s EXCEPT !.flushing = FALSE]]
NoneLeft(s) == [item |-> "none", frame |-> NoFrame, self |-> s]
Continue(s) == [item |-> "continue", frame |-> NoFrame, self |-> s]

\* Lines 148-152 and 161-165.
FlushDecoder(s) ==
    LET e == send_eof(s) IN
    IF e.failed THEN SomeErr(e.self)
    ELSE Continue([e.self EXCEPT !.flushing = TRUE])

\* Lines 169-176.
ProcessNextPacket(s) ==
    IF s.packet_index < Len(s.packet_buffer)
    THEN LET r == send_packet(s, s.packet_buffer[s.packet_index + 1]) IN
         IF r.failed THEN SomeErr(r.self)
         ELSE Continue([r.self EXCEPT !.packet_index = @ + 1])
    ELSE Continue(s)

\* Iterator::next: one pass of its loop.
next(s) ==
    LET d == decode_frame(s) IN
    IF d.result = "frame" THEN SomeOk(d.frame, d.self)
    ELSE IF d.result = "err" THEN SomeErr(d.self)
    ELSE IF s.flushing THEN NoneLeft(s)
    ELSE IF s.packet_index >= Len(s.packet_buffer)
    THEN IF s.packets_exhausted THEN FlushDecoder(s)
         ELSE LET l == load_packets([s EXCEPT !.packet_buffer = << >>,
                                              !.packet_index = 0], LoadCount)
              IN  IF l.packet_buffer = << >> /\ l.packets_exhausted
                  THEN FlushDecoder(l)
                  ELSE ProcessNextPacket(l)
    ELSE ProcessNextPacket(s)

-----------------------------------------------------------------------------
(* The frame loop of main (351-415) and of run_full_analysis (213-231) *)

\* The locals before the loop.  after_err records that a frame was counted
\* after an error had been counted; analysed logs, for every frame handed to
\* VideoFrameAnalyzer::analyze, how many frames had been decoded before it.
NewLoop(rate) ==
    [video_sample_rate |-> rate, idx |-> 0, frame_count |-> 0, error_count |-> 0,
     frames_analyzed |-> 0, suspicious_frames |-> << >>,
     item |-> "none", frame |-> NoFrame, after_err |-> FALSE, analysed |-> << >>]

\* VideoFrameAnalyzer::analyze(frame): lsb_suspicious || histogram_anomalies
FrameIsSuspicious(frame) == frame.kind = "odd"

\* An arm that moves on to the next item and counts nothing.
SkipItem(l) == [l EXCEPT !.idx = Inc(@)]

\* The Err(_) arm.
OnDecodeError(l) ==
    [l EXCEPT !.error_count = Inc(@), !.idx = Inc(@)]

\* The Ok(frame) arm when idx % video_sample_rate == 0.
OnSampledFrame(fe, l) ==
    [l EXCEPT !.frame_count = Inc(@),
              !.frames_analyzed = IF fe = "cli" THEN Inc(@) ELSE @,
              !.suspicious_frames =
                  IF FrameIsSuspicious(l.frame) THEN Append(@, l.idx) ELSE @,
              !.after_err = @ \/ l.error_count > 0,
              !.analysed = Log(@, l.frame_count),
              !.idx = Inc(@)]

\* The Ok(frame) arm otherwise.
OnSkippedFrame(l) ==
    [l EXCEPT !.frame_count = Inc(@),
              !.after_err = @ \/ l.error_count > 0,
              !.idx = Inc(@)]

\* FormatSpecificAnalysis::Video(VideoAnalysis { .. }) after the loop.
VideoAnalysisOf(fe, l) ==
    IF fe = "cli" THEN VideoAnalysisCli(l.frame_count, l.error_count)
    ELSE VideoAnalysisApi(l.frame_count, l.error_count, l.suspicious_frames)

-----------------------------------------------------------------------------
(* Files: the buffers the scanner is run on *)

HeadJPEG == SigJFIF \o <<0, 16, 74, 70, 73, 70, 0, 1>>
HeadPNG == SigPNG \o <<0, 0, 0, 13>>
HeadGIF == SigGIF89a \o <<1, 0, 1, 0, 0, 0>>
HeadWAV == SigRIFF \o <<36, 0, 0, 0>> \o WAVE
HeadAVI == SigRIFF \o <<36, 0, 0, 0>> \o AVI_
HeadRIFFShort == SigRIFF \o <<1, 0, 0, 0, 87>>
HeadPDF == SigPDF \o <<49, 46, 52>>
HeadZIP == SigZIP \o <<20, 0, 0, 0>>
HeadJunk == <<1, 2, 3, 4, 5, 6, 7, 8>>

Zeros == <<0, 0, 0, 0>>
Ones == <<255, 255, 255, 255>>
Junk == <<9, 9, 9, 9>>

\* bytes followed by filler up to length n
PadTo(bytes, n) == bytes \o [i \in 1..(n - Len(bytes)) |-> 9]

Heads == {HeadJPEG, HeadPNG, HeadGIF, HeadWAV, HeadAVI, HeadRIFFShort, HeadPDF,
          HeadJunk}
Embedded == {<< >>, HeadPNG, HeadPDF, HeadZIP, HeadGIF, HeadJPEG, HeadWAV}

\* One file behind the head, behind each kind of gap.
AfterGap(bytes, e) ==
    {bytes \o e, bytes \o Zeros \o e, bytes \o Ones \o e, bytes \o Junk \o e,
     PadTo(bytes, SectorSmall) \o e}

WithEmbedded(heads) == UNION {AfterGap(b, e) : b \in heads, e \in Embedded}

\* An image, an audio file and a document in one buffer.
Polyglots == {HeadJPEG \o Zeros \o HeadWAV \o Zeros \o HeadPDF,
              HeadWAV \o Zeros \o HeadPNG \o Junk \o HeadPDF,
              HeadWAV \o Ones \o HeadGIF \o Ones \o HeadAVI}

\* The empty file and a one-byte file complete the family.
Buffers == WithEmbedded(Heads) \cup Polyglots \cup {<< >>, <<7>>}

Extensions == {NoExt, SomeExt(<<"p","n","g">>), SomeExt(<<"W","a","v">>)}

\* What Binwalk::scan may hand back: signature results with an offset, a name
\* and a u8 confidence.  The crate is not part of the repository, so every
\* sequence of results is taken to be possible.
DeepSigs ==
    {[offset |-> 0, name |-> <<"j","p","e","g">>, confidence |-> 250],
     [offset |-> 0, name |-> <<"p","n","g">>, confidence |-> 100],
     [offset |-> 16, name |-> <<"z","i","p">>, confidence |-> 99]}
MaxDeep == 2

RECURSIVE SeqsUpTo(_, _)
SeqsUpTo(S, n) ==
    IF n = 0 THEN {<< >>}
    ELSE LET shorter == SeqsUpTo(S, n - 1) IN
         shorter \cup {Append(q, x) : q \in shorter, x \in S}

DeepResults == SeqsUpTo(DeepSigs, MaxDeep)

\* Values of the variables a specification does not use.
NoScan == [status |-> "none"]
NoOutcome == [file_type |-> "none", parser |-> "none"]
NoLoop == NewLoop(1)
NoInput == [kind |-> "none"]
NoResult == [status |-> "none"]

-----------------------------------------------------------------------------
(* SpecScan: MagicBytesAnalyzerWithPath::analyze on every file of Buffers *)

InitScan ==
    /\ frontend = "cli"
    /\ pc = "start"
    /\ data \in Buffers
    /\ ext \in Extensions
    /\ deep \in DeepResults
    /\ scan = NoScan
    /\ outcome = NoOutcome
    /\ report = NewReport
    /\ finalized = 0
    /\ it = NoIterator
    /\ loop = NoLoop
    /\ input = NoInput
    /\ result = NoResult

Scan ==
    /\ pc = "start"
    /\ scan' = analyze(data, ext, deep)
    /\ pc' = "scanned"
    /\ UNCHANGED <<input, result, frontend, data, ext, deep, outcome, report, finalized, it, loop>>

NextScan == Scan

SpecScan == InitScan /\ [][NextScan]_vars

\* The matches of a scan that fall in category c, among those at offset >= from.
MatchesIn(c, from) ==
    {i \in 1..Len(scan.embedded_files) :
        /\ scan.embedded_files[i].offset >= from
        /\ determine_file_category(scan.embedded_files[i].description) = c}

StartsAtOffsetZero ==
    /\ scan.status = "ok"
    /\ scan.embedded_files # << >>
    /\ scan.embedded_files[1].offset = 0

\* C1 (as amended): when the sorted match list starts with a match at offset 0,
\* each tally category equals the number of matches that fall in that category,
\* the match at offset 0 included and counted exactly once.
C1_TallyCountsEachMatchOnce ==
    StartsAtOffsetZero =>
        \A c \in Categories : scan.format_summary[c] = Cardinality(MatchesIn(c, 0))

\* C1 (as stated): the tally leaves the match at offset 0 out, so each category
\* equals the number of matches at offset > 0 in that category.
C1_TallyExcludesOffsetZero ==
    StartsAtOffsetZero =>
        \A c \in Categories : scan.format_summary[c] = Cardinality(MatchesIn(c, 1))

\* A scan of an image with a second image behind it: two Image matches, the
\* first at offset 0, and an Image tally of 2.
C1_Witness ==
    /\ StartsAtOffsetZero
    /\ Len(scan.embedded_files) = 2
    /\ scan.embedded_files[2].offset > 0
    /\ scan.format_summary["Image"] = 2

\* C2: the merged match list is in ascending offset order and no two entries
\* have the same offset.
C2_SortedAndUnique ==
    scan.status = "ok" =>
        \A i, j \in 1..Len(scan.embedded_files) :
            i < j => scan.embedded_files[i].offset < scan.embedded_files[j].offset

\* The part of C2 that the sort gives: ascending order, equal offsets allowed.
C2_Sorted ==
    scan.status = "ok" =>
        \A i, j \in 1..Len(scan.embedded_files) :
            i < j => scan.embedded_files[i].offset <= scan.embedded_files[j].offset

-----------------------------------------------------------------------------
(* SpecAgg: finalize_summary on every report of a family of reports *)

FindingPool ==
    {MultipleFinding(2), PolyglotFinding,
     CompleteFinding(EmbeddedFile(SectorSmall, PNG_image, "Image", "medium"))}
MaxFindings == 2

\* A scan result with the three fields the aggregators read set as given.
ScanWith(suspicious, multiple, findings) ==
    [status |-> "ok", primary_format |-> UNKNOWN, expected_format |-> NoExt,
     total_signatures_found |-> 0, embedded_files |-> << >>,
     has_multiple_formats |-> multiple, has_suspicious_data |-> suspicious,
     suspicious_findings |-> findings, format_summary |-> EmptySummary]

MagicReports ==
    {None} \cup
    {Some(MagicBytesReport(ScanWith(s, m, f))) :
        s \in BOOLEAN, m \in BOOLEAN, f \in SeqsUpTo(FindingPool, MaxFindings)}

\* What the format analyzers can put in a report: ExifReport.suspicious_fields,
\* LsbReport.is_suspicious, Id3Report.suspicious_frames and
\* SpectrogramReport.hidden_message_detected, each analyzer present or failed.
ExifReports == {None, Some([suspicious_fields |-> << >>]),
                Some([suspicious_fields |-> << "UserComment" >>])}
LsbReports == {None, Some([is_suspicious |-> FALSE]), Some([is_suspicious |-> TRUE])}
Id3Reports == {None, Some([suspicious_frames |-> << >>]),
               Some([suspicious_frames |-> << "PRIV" >>])}
SpectrogramReports == {None, Some([hidden_message_detected |-> FALSE]),
                       Some([hidden_message_detected |-> TRUE])}

FormatAnalyses(fe) ==
    {UnknownAnalysis, TextAnalysis}
    \cup {ImageAnalysis(e, l) : e \in ExifReports, l \in LsbReports}
    \cup {AudioAnalysis(i, sp) : i \in Id3Reports, sp \in SpectrogramReports}
    \cup (IF fe = "cli"
          THEN {VideoAnalysisCli(f, 0) : f \in 0..1}
          ELSE {VideoAnalysisApi(f, 0, sf) : f \in 0..1, sf \in {<< >>, <<0>>, <<0, 1>>}})

InitAgg ==
    /\ frontend \in {"cli", "api"}
    /\ pc = "finalize"
    /\ data = << >>
    /\ ext = NoExt
    /\ deep = << >>
    /\ scan = NoScan
    /\ outcome = NoOutcome
    /\ \E m \in MagicReports, f \in FormatAnalyses(frontend) :
          report = [NewReport EXCEPT !.magic_bytes_analysis = m,
                                     !.format_specific_analysis = f]
    /\ finalized = 0
    /\ it = NoIterator
    /\ loop = NoLoop
    /\ input = NoInput
    /\ result = NoResult

\* report.finalize_summary() (main.rs 677), finalize_summary(&mut response)
\* (analysis.rs 254)
Finalize ==
    /\ pc = "finalize"
    /\ report' = finalize_summary(frontend, report)
    /\ finalized' = finalized + 1
    /\ pc' = "done"
    /\ UNCHANGED <<input, result, frontend, data, ext, deep, scan, outcome, it, loop>>

NextAgg == Finalize

SpecAgg == InitAgg /\ [][NextAgg]_vars

\* C9: the confidence is High with three or more indicators, Medium with one
\* or two, Low with none; and with no indicator detected is false.
C9_ConfidenceFromCount ==
    finalized = 1 =>
        LET n == Len(report.summary.threat_indicators)
            confidence == report.summary.confidence_level
        IN  /\ n >= 3 => confidence = "high"
            /\ n \in 1..2 => confidence = "medium"
            /\ n = 0 => confidence = "low" /\ ~report.summary.steganography_detected

\* A verdict with exactly three indicators, and High.
C9_Witness ==
    /\ finalized = 1
    /\ Len(report.summary.threat_indicators) = 3
    /\ report.summary.confidence_level = "high"

StructureMessages == {"Suspicious data found in file structure",
                      "Suspicious data in file structure"}
FormatMessages == {"LSB analysis indicates possible hidden data",
                   "LSB analysis indicates hidden data",
                   "Suspicious EXIF metadata found",
                   "Spectrogram analysis detected hidden patterns",
                   "Spectrogram analysis detected patterns",
                   "Suspicious ID3 metadata found",
                   "Found {} suspicious video frames"}

\* C10: the indicators are, in this order, the file-structure indicator (if
\* has_suspicious_data), the multiple-formats indicator (if
\* has_multiple_formats), the suspicious_findings as they are, and then
\* nothing but format-specific indicators.
C10_IndicatorOrder ==
    finalized = 1 =>
        LET ind == report.summary.threat_indicators
            m == report.magic_bytes_analysis
            g1 == IF m.some /\ m.value.has_suspicious_data THEN 1 ELSE 0
            g2 == IF m.some /\ m.value.has_multiple_formats THEN 1 ELSE 0
            f == IF m.some THEN m.value.suspicious_findings ELSE << >>
        IN  /\ Len(ind) >= g1 + g2 + Len(f)
            /\ g1 = 1 => ind[1].kind \in StructureMessages
            /\ g2 = 1 => ind[g1 + 1].kind = "Multiple file formats detected"
            /\ SubSeq(ind, g1 + g2 + 1, g1 + g2 + Len(f)) = f
            /\ \A i \in (g1 + g2 + Len(f) + 1)..Len(ind) : ind[i].kind \in FormatMessages

\* A verdict with an indicator of each of the four groups.
C10_Witness ==
    /\ finalized = 1
    /\ report.magic_bytes_analysis.some
    /\ report.magic_bytes_analysis.value.has_suspicious_data
    /\ report.magic_bytes_analysis.value.has_multiple_formats
    /\ Len(report.magic_bytes_analysis.value.suspicious_findings) = 2
    /\ Len(report.summary.threat_indicators) >= 5

-----------------------------------------------------------------------------
(* SpecRun: one run of main (CLI) or run_full_analysis (API) on a file *)

File(bytes, extension, sigs) == [data |-> bytes, ext |-> extension, deep |-> sigs]

RunFiles ==
    {File(HeadPNG, SomeExt(<<"p","n","g">>), << >>),
     File(HeadPNG, SomeExt(<<"j","p","g">>), << >>),
     File(PadTo(HeadJPEG, SectorSmall) \o HeadPNG, SomeExt(<<"j","p","e","g">>), << >>),
     File(HeadWAV \o Zeros \o HeadGIF, SomeExt(<<"w","a","v">>), << >>),
     File(HeadWAV, SomeExt(<<"w","a","v">>), << >>),
     File(HeadAVI, SomeExt(<<"a","v","i">>), << >>),
     File(HeadPDF, SomeExt(<<"p","d","f">>), << >>),
     File(HeadRIFFShort, NoExt, << >>),
     File(<< >>, NoExt, << >>)}

\* The class of the MIME type that the infer crate gives a buffer, for the
\* buffers of RunFiles: image/*, audio/*, video/*; application/* and no
\* match both end as Text.
file_type_of(bytes) ==
    IF \/ starts_with(bytes, 0, <<255, 216, 255>>)
       \/ starts_with(bytes, 0, SigPNG)
       \/ starts_with(bytes, 0, <<71, 73, 70>>)
    THEN "Image"
    ELSE IF starts_with(bytes, 0, SigRIFF) /\ starts_with(bytes, 8, WAVE) THEN "Audio"
    ELSE IF starts_with(bytes, 0, SigRIFF) /\ starts_with(bytes, 8, AVI_) THEN "Video"
    ELSE "Text"

\* Containers of up to MaxPackets packets, and some that need a second
\* load_packets call.
MaxPackets == 3
LongContainers ==
    {[i \in 1..(LoadCount + 2) |-> "ok"],
     [i \in 1..(LoadCount + 2) |-> IF i % 2 = 0 THEN "other" ELSE "odd"],
     [i \in 1..(LoadCount + 1) |-> IF i = LoadCount + 1 THEN "bad" ELSE "ok"],
     [i \in 1..(LoadCount + 1) |-> IF i = LoadCount THEN "noscale" ELSE "held"]}
Containers == SeqsUpTo(PacketKinds, MaxPackets) \cup LongContainers

\* args.video_sample_rate (usize, default 30); the API takes it from the form.
MaxRate == 2
SampleRates == 0..MaxRate

InitRun ==
    /\ frontend \in {"cli", "api"}
    /\ pc = "start"
    /\ \E f \in RunFiles : data = f.data /\ ext = f.ext /\ deep = f.deep
    /\ scan = NoScan
    /\ outcome = NoOutcome
    /\ report = NewReport
    /\ finalized = 0
    /\ it = NoIterator
    /\ loop = NoLoop
    /\ input = NoInput
    /\ result = NoResult

\* process_file, SteganalysisReport::new and the outputs directory (main.rs
\* 96-123); metadata, read and the AnalysisResponse literal (analysis.rs
\* 29-75).  A file that cannot be read ends the run with an Err;
\* create_dir("outputs/").unwrap() panics when the directory cannot be made.
ProcessFile ==
    /\ pc = "start"
    /\ \E readable, outputs_made \in BOOLEAN :
          IF ~readable
          THEN /\ pc' = "unreadable"
               /\ UNCHANGED <<outcome, report>>
          ELSE /\ outcome' = [file_type |-> file_type_of(data), parser |-> "none"]
               /\ report' = NewReport
               /\ pc' = IF frontend = "cli" /\ ~outputs_made THEN "panic" ELSE "magic"
    /\ UNCHANGED <<input, result, frontend, data, ext, deep, scan, finalized, it, loop>>

\* main.rs 130-214, analysis.rs 78-107: an Err of analyze leaves the report
\* without magic_bytes_analysis; a panic of analyze ends the run.
MagicBytes ==
    /\ pc = "magic"
    /\ scan' = analyze(data, ext, deep)
    /\ IF scan'.status = "ok"
       THEN /\ report' = set_magic_bytes_analysis(report, MagicBytesReport(scan'))
            /\ pc' = "format"
       ELSE IF scan'.status = "err"
       THEN /\ pc' = "format"
            /\ UNCHANGED report
       ELSE /\ pc' = "panic"
            /\ UNCHANGED report
    /\ UNCHANGED <<input, result, frontend, data, ext, deep, outcome, finalized, it, loop>>

\* What follows a parser's Err: `continue` for the image parser and every
\* `if let Ok` of the API reach finalize_summary; `return Err(Box::new(e))`
\* (main.rs 332, 457, 499) leaves main.
AfterParseError(fe, file_type) ==
    IF fe = "cli" /\ file_type # "Image" THEN "fatal" ELSE "finalize"

ParseFails ==
    /\ pc = "format"
    /\ outcome' = [outcome EXCEPT !.parser = "err"]
    /\ pc' = AfterParseError(frontend, outcome.file_type)
    /\ UNCHANGED <<input, result, frontend, data, ext, deep, scan, report, finalized, it, loop>>

\* What follows the analyzers of a parsed file: the CLI writes the LSB planes
\* and the spectrogram with .save(..).unwrap() (main.rs 308, 622), which
\* panics when the image cannot be written.
AfterAnalyzers(fe, writes, saved) ==
    IF fe = "cli" /\ writes /\ ~saved THEN "panic" ELSE "finalize"

\* FileType::Image: main.rs 502-672, analysis.rs 111-172
AnalyzeImage ==
    /\ pc = "format"
    /\ outcome.file_type = "Image"
    /\ \E e \in ExifReports, l \in LsbReports, saved \in BOOLEAN :
          /\ pc' = AfterAnalyzers(frontend, l.some, saved)
          /\ report' = IF pc' = "panic" THEN report
                        ELSE set_format_analysis(report, ImageAnalysis(e, l))
    /\ outcome' = [outcome EXCEPT !.parser = "ok"]
    /\ UNCHANGED <<input, result, frontend, data, ext, deep, scan, finalized, it, loop>>

\* FileType::Audio: main.rs 222-335, analysis.rs 173-206
AnalyzeAudio ==
    /\ pc = "format"
    /\ outcome.file_type = "Audio"
    /\ \E i \in Id3Reports, sp \in SpectrogramReports, saved \in BOOLEAN :
          /\ pc' = AfterAnalyzers(frontend, sp.some, saved)
          /\ report' = IF pc' = "panic" THEN report
                        ELSE set_format_analysis(report, AudioAnalysis(i, sp))
    /\ outcome' = [outcome EXCEPT !.parser = "ok"]
    /\ UNCHANGED <<input, result, frontend, data, ext, deep, scan, finalized, it, loop>>

\* FileType::Text: main.rs 461-501, analysis.rs 240-250
AnalyzeText ==
    /\ pc = "format"
    /\ outcome.file_type = "Text"
    /\ report' = set_format_analysis(report, TextAnalysis)
    /\ outcome' = [outcome EXCEPT !.parser = "ok"]
    /\ pc' = "finalize"
    /\ UNCHANGED <<input, result, frontend, data, ext, deep, scan, finalized, it, loop>>

\* FileType::Video, VideoParser::parse_path is Ok(frame_iter): main.rs 337-349,
\* analysis.rs 208-211
OpenVideo ==
    /\ pc = "format"
    /\ outcome.file_type = "Video"
    /\ \E c \in Containers, e \in BOOLEAN : it' = NewIterator(c, e)
    /\ \E rate \in SampleRates : loop' = NewLoop(rate)
    /\ outcome' = [outcome EXCEPT !.parser = "ok"]
    /\ pc' = "frames"
    /\ UNCHANGED <<input, result, frontend, data, ext, deep, scan, report, finalized>>

\* The for loop is in frame_iter.next(): one pass of the loop of next.  The
\* pass returns an item to the loop body, or returns None, which ends the for
\* loop and sets the video analysis (main.rs 447-450, analysis.rs 233-237),
\* or goes on to another pass.
NextFrame ==
    /\ pc = "frames"
    /\ LET r == next(it) IN
       /\ it' = r.self
       /\ IF r.item = "continue"
          THEN UNCHANGED <<pc, loop, report>>
          ELSE IF r.item = "none"
          THEN /\ loop' = [loop EXCEPT !.item = r.item, !.frame = r.frame]
               /\ report' = set_format_analysis(report, VideoAnalysisOf(frontend, loop))
               /\ pc' = "finalize"
          ELSE /\ loop' = [loop EXCEPT !.item = r.item, !.frame = r.frame]
               /\ pc' = "item"
               /\ UNCHANGED report
    /\ UNCHANGED <<input, result, frontend, data, ext, deep, scan, outcome, finalized>>

\* The loop body on one item.  idx % video_sample_rate panics when the rate is 0.
HandleFrame ==
    /\ pc = "item"
    /\ IF loop.item = "err"
       THEN /\ loop' = OnDecodeError(loop)
            /\ pc' = "frames"
       ELSE IF loop.video_sample_rate = 0
       THEN /\ loop' = [loop EXCEPT !.frame_count = Inc(@)]
            /\ pc' = "panic"
       ELSE /\ loop' = IF loop.idx % loop.video_sample_rate = 0
                       THEN OnSampledFrame(frontend, loop)
                       ELSE OnSkippedFrame(loop)
            /\ pc' = "frames"
    /\ UNCHANGED <<input, result, frontend, data, ext, deep, scan, outcome, report, finalized, it>>

\* After finalize_summary: the CLI saves the report (main.rs 700), the API
\* returns Ok(response) (analysis.rs 256).
Deliver ==
    /\ pc = "done"
    /\ report' = IF frontend = "cli" THEN save_to_file(report) ELSE report
    /\ pc' = "end"
    /\ UNCHANGED <<input, result, frontend, data, ext, deep, scan, outcome, finalized, it, loop>>

NextRun ==
    \/ ProcessFile
    \/ MagicBytes
    \/ ParseFails
    \/ AnalyzeImage
    \/ AnalyzeAudio
    \/ AnalyzeText
    \/ OpenVideo
    \/ NextFrame
    \/ HandleFrame
    \/ Finalize
    \/ Deliver

SpecRun == InitRun /\ [][NextRun]_vars

\* The frame loop runs on as long as it has a step to take.
FairSpecRun == SpecRun /\ WF_vars(NextFrame) /\ WF_vars(HandleFrame)

\* The three inputs of the verdict, read off the finished run: the scan's
\* flag, the format-specific flag (LSB suspicious, hidden message detected, at
\* least one frame found suspicious by the loop), and the scan's findings.
MagicFlag ==
    /\ report.magic_bytes_analysis.some
    /\ report.magic_bytes_analysis.value.has_suspicious_data

FindingsFlag ==
    /\ report.magic_bytes_analysis.some
    /\ report.magic_bytes_analysis.value.suspicious_findings # << >>

FormatFlag ==
    LET f == report.format_specific_analysis IN
    \/ /\ f.type = "Image"
       /\ f.lsb_analysis.some /\ f.lsb_analysis.value.is_suspicious
    \/ /\ f.type = "Audio"
       /\ f.spectrogram_analysis.some
       /\ f.spectrogram_analysis.value.hidden_message_detected
    \/ /\ f.type = "Video"
       /\ loop.suspicious_frames # << >>

\* C3: detected is true if and only if has_suspicious_data is true, or the
\* format-specific suspicious flag is true, or suspicious_findings is not
\* empty; in the CLI and in the API.
C3_DetectedIffAnyFlag ==
    finalized = 1 =>
        (report.summary.steganography_detected
            <=> (MagicFlag \/ FormatFlag \/ FindingsFlag))

FindingKinds ==
    LET f == report.magic_bytes_analysis.value.suspicious_findings IN
    {f[i].kind : i \in 1..Len(f)}

\* C4: a scan that found more than one signature and nothing else (no
\* suspicious data, no extension mismatch, no polyglot, no format-specific
\* flag) gives a verdict with detected = false.
C4_MultipleFormatsAloneNotDetected ==
    (/\ finalized = 1
     /\ report.magic_bytes_analysis.some
     /\ report.magic_bytes_analysis.value.has_multiple_formats
     /\ ~report.magic_bytes_analysis.value.has_suspicious_data
     /\ MismatchFinding(<< >>, << >>).kind \notin FindingKinds
     /\ PolyglotFinding.kind \notin FindingKinds
     /\ ~FormatFlag)
    => ~report.summary.steganography_detected

\* C5: once the file has been read, the failure of a parser does not end the
\* run: the run goes on to finalize_summary.
C5_ParserFailureNotFatal ==
    outcome.parser = "err" => pc \in {"finalize", "done", "end"}

\* C6: the frame loop terminates: once it has started, the iterator returns
\* None after finitely many calls (or the loop has left by a panic).
C6_FrameLoopTerminates ==
    (pc = "frames") ~> (pc \notin {"frames", "item"})

InFrameLoop == outcome.file_type = "Video" /\ outcome.parser = "ok"

\* Between two items the loop has counted every item the iterator returned;
\* after the loop the video analysis carries these counts.
C7_Counted ==
    /\ pc = "frames" =>
          /\ loop.frame_count = it.yielded_ok
          /\ loop.error_count = it.yielded_err
    /\ (InFrameLoop /\ pc \in {"finalize", "done", "end"}) =>
          /\ loop.item = "none"
          /\ report.format_specific_analysis.type = "Video"
          /\ report.format_specific_analysis.frames_processed = it.yielded_ok
          /\ report.format_specific_analysis.errors_encountered = it.yielded_err

\* An Err item adds one to the error count, leaves the frame count alone and
\* the loop goes on to ask for the next item.
C7_Continues ==
    [][(pc = "item" /\ loop.item = "err") =>
          /\ pc' = "frames"
          /\ loop'.error_count = Inc(loop.error_count)
          /\ loop'.frame_count = loop.frame_count]_vars

\* C7: a decode error is counted once and is not fatal; the loop continues,
\* later frames are still counted, and the summary is produced after the
\* sequence has ended.
C7_DecodeErrorsCounted == []C7_Counted /\ C7_Continues

\* A finished loop that counted an error and, after it, a frame.
C7_Witness ==
    /\ InFrameLoop
    /\ pc = "finalize"
    /\ report.format_specific_analysis.errors_encountered >= 1
    /\ report.format_specific_analysis.frames_processed >= 1
    /\ loop.after_err

\* finalize_summary has run at most once; when it has, both analyses had been
\* attempted and the summary is the verdict of what the report holds.
C8_Once ==
    /\ finalized <= 1
    /\ finalized = 1 <=> pc \in {"done", "end"}
    /\ finalized = 1 =>
          /\ scan.status \in {"ok", "err"}
          /\ outcome.parser \in {"ok", "err"}
          /\ report.summary = finalize_summary(frontend, report).summary

\* Nothing changes the report after finalize_summary has run.
C8_Frozen == [][finalized = 1 => report' = report]_vars

\* C8: the verdict is computed exactly once, after the magic-bytes result and
\* the format-specific result are set or known to be unavailable, and the
\* summary, the magic-bytes report and the format-specific analysis do not
\* change after finalize_summary.
C8_VerdictComputedOnce == []C8_Once /\ C8_Frozen

\* A CLI run that has saved its report, with both analyses in it.
C8_Witness ==
    /\ frontend = "cli"
    /\ pc = "end"
    /\ finalized = 1
    /\ report.magic_bytes_analysis.some
    /\ report.format_specific_analysis.type = "Audio"
    /\ report.summary.steganography_detected

-----------------------------------------------------------------------------
(* SpecAligned: analyze on buffers that start with FF D8 FF E0 and carry the  *)
(* PNG signature on a sector boundary                                         *)

\* pattern repeated up to length n
Cyclic(pattern, n) == [i \in 1..n |-> pattern[((i - 1) % Len(pattern)) + 1]]

\* What the padding is made of: uniform bytes, signatures of the table, and the
\* PNG signature itself, whole and cut short.
PaddingPatterns ==
    {<<0>>, <<255>>, <<9>>, SigPNG, SubSeq(SigPNG, 1, 7), SigJFIF, SigZIP,
     HeadGIF, HeadWAV}

PngTails == {<< >>, <<0, 0, 0, 13>>}

MaxSectors == 2

JpegThenPng(pattern, n, tail) ==
    SigJFIF \o Cyclic(pattern, n * SectorSmall - Len(SigJFIF)) \o SigPNG \o tail

AlignedBuffers ==
    {JpegThenPng(p, n, t) : p \in PaddingPatterns, n \in 1..MaxSectors, t \in PngTails}

\* Deep-scan results for these buffers: none, one of DeepSigs, or one at the
\* offset of the PNG signature.
AlignedDeep ==
    SeqsUpTo(DeepSigs, 1)
    \cup {<<[offset |-> SectorSmall, name |-> <<"p","n","g">>, confidence |-> 200]>>}

InitAligned ==
    /\ frontend = "cli"
    /\ pc = "start"
    /\ data \in AlignedBuffers
    /\ ext \in Extensions
    /\ deep \in AlignedDeep
    /\ scan = NoScan
    /\ outcome = NoOutcome
    /\ report = NewReport
    /\ finalized = 0
    /\ it = NoIterator
    /\ loop = NoLoop
    /\ input = NoInput
    /\ result = NoResult

SpecAligned == InitAligned /\ [][NextScan]_vars

\* The sector boundaries of the scanned buffer where the PNG signature stands.
AlignedPngOffsets ==
    {o \in 1..Len(data) : o % SectorSmall = 0 /\ starts_with(data, o, SigPNG)}

MatchOffsets == {scan.embedded_files[i].offset : i \in 1..Len(scan.embedded_files)}

\* C11: a scanned buffer that starts with FF D8 FF E0 and has the PNG signature
\* at a multiple of 512 has has_multiple_formats = true and a match at exactly
\* that offset, whatever the padding is.
C11_JpegThenAlignedPng ==
    (pc = "scanned" /\ starts_with(data, 0, SigJFIF) /\ AlignedPngOffsets # {}) =>
        /\ scan.status = "ok"
        /\ scan.has_multiple_formats
        /\ AlignedPngOffsets \subseteq MatchOffsets

\* The PNG signature at offset 1024 behind padding made of PNG signatures: the
\* decoys in the padding are dropped, the one on the boundary is recorded.
C11_Witness ==
    /\ pc = "scanned"
    /\ starts_with(data, 0, SigJFIF)
    /\ starts_with(data, 4, SigPNG)
    /\ AlignedPngOffsets = {SectorLarge}
    /\ deep = << >>
    /\ scan.status = "ok"
    /\ MatchOffsets = {0, SectorLarge}

-----------------------------------------------------------------------------
(* A PNG file with nothing else in it (under SpecScan) *)

\* The buffer starts with the PNG signature and no signature of the manual
\* table stands anywhere behind offset 0.
PngAndNothingElse ==
    /\ starts_with(data, 0, SigPNG)
    /\ \A k \in 1..Len(signatures) :
          \A p \in 1..(Len(data) - 1) : ~starts_with(data, p, signatures[k][1])

\* The file has no extension, or one that the upper-case format name contains.
ExtensionAgrees ==
    ~ext.some \/ contains(to_uppercase(PNG_image), to_uppercase(ext.value))

-----------------------------------------------------------------------------
(* The polyglot indicator (under SpecScan) *)

HasPolyglotFinding ==
    \E i \in 1..Len(scan.suspicious_findings) :
        scan.suspicious_findings[i] = PolyglotFinding

\* C13: the polyglot string is in suspicious_findings exactly when the tally
\* has audio > 0 and image > 0 and (video > 0 or text > 0).
C13_PolyglotExactly ==
    scan.status = "ok" =>
        LET tally == scan.format_summary IN
        HasPolyglotFinding <=>
            /\ tally["Audio"] > 0
            /\ tally["Image"] > 0
            /\ (tally["Video"] > 0 \/ tally["Text/Document"] > 0)

\* A tally with audio, image and video and no text, and the polyglot string.
C13_Witness ==
    /\ scan.status = "ok"
    /\ scan.format_summary["Audio"] > 0
    /\ scan.format_summary["Image"] > 0
    /\ scan.format_summary["Video"] > 0
    /\ scan.format_summary["Text/Document"] = 0
    /\ HasPolyglotFinding

-----------------------------------------------------------------------------
(* f64 values of the analyzers: a non-negative or negative rational n/d, NaN  *)
(* or +infinity.  Division follows IEEE 754: 0/0 is NaN, x/0 is infinity.     *)

RECURSIVE Gcd(_, _)
Gcd(a, b) == IF b = 0 THEN a ELSE Gcd(b, a % b)

Abs(i) == IF i < 0 THEN -i ELSE i

Num(n, d) ==
    LET g == Gcd(Abs(n), d) IN [kind |-> "num", n |-> n \div g, d |-> d \div g]
NaN == [kind |-> "nan", n |-> 0, d |-> 1]
Infinity == [kind |-> "inf", n |-> 1, d |-> 1]
FromInt(i) == Num(i, 1)

IsFinite(a) == a.kind = "num"

FAdd(a, b) ==
    IF a.kind = "nan" \/ b.kind = "nan" THEN NaN
    ELSE IF a.kind = "inf" \/ b.kind = "inf" THEN Infinity
    ELSE Num(a.n * b.d + b.n * a.d, a.d * b.d)

FSub(a, b) ==
    IF a.kind = "nan" \/ b.kind = "nan" \/ b.kind = "inf" THEN NaN
    ELSE IF a.kind = "inf" THEN Infinity
    ELSE Num(a.n * b.d - b.n * a.d, a.d * b.d)

FMul(a, b) ==
    IF a.kind = "nan" \/ b.kind = "nan" THEN NaN
    ELSE IF a.kind = "inf" \/ b.kind = "inf"
    THEN IF (a.kind = "num" /\ a.n = 0) \/ (b.kind = "num" /\ b.n = 0)
         THEN NaN ELSE Infinity
    ELSE Num(a.n * b.n, a.d * b.d)

\* a / b for a >= 0 and b >= 0
FDiv(a, b) ==
    IF a.kind = "nan" \/ b.kind = "nan" THEN NaN
    ELSE IF b.kind = "inf" THEN IF a.kind = "inf" THEN NaN ELSE FromInt(0)
    ELSE IF a.kind = "inf" THEN Infinity
    ELSE IF b.n = 0 THEN IF a.n = 0 THEN NaN ELSE Infinity
    ELSE Num(a.n * b.d, a.d * b.n)

\* a > b; every comparison with NaN is false
FGt(a, b) ==
    /\ a.kind # "nan" /\ b.kind # "nan"
    /\ IF a.kind = "inf" THEN b.kind # "inf"
       ELSE b.kind = "num" /\ a.n * b.d > b.n * a.d

\* f64::log2 of the integers 1..26, in units of 1/Log2Scale, rounded.
Log2Scale == 100000
Log2Table ==
    <<0, 100000, 158496, 200000, 232193, 258496, 280735, 300000, 316993,
      332193, 345943, 358496, 370044, 380735, 390689, 400000, 408746, 416993,
      424793, 432193, 439232, 445943, 452356, 458496, 464386, 470044>>

\* -p * p.log2() for p = count / total, in units of 1 / (total * Log2Scale);
\* the term is added only if count > 0
EntropyTerm(count, total) ==
    IF count > 0 THEN count * (Log2Table[total] - Log2Table[count]) ELSE 0

-----------------------------------------------------------------------------
(* LsbAnalyzer (analyzers/lsb_analyzer.rs)                                    *)
(*                                                                            *)
(* An image is its dimensions and its pixels in row order; a pixel is the    *)
(* value of its three colour channels (the images are grey).                 *)

Image(w, h, px) == [kind |-> "image", width |-> w, height |-> h, pixels |-> px]

\* image.pixels().map(|pixel| pixel[channel] & 1)
extract_lsb_plane(image) == [i \in 1..Len(image.pixels) |-> image.pixels[i] % 2]

\* The number of chunks of two bits that make the pair value v.
PairCount(lsb_data, v) ==
    Cardinality({k \in 1..(Len(lsb_data) \div 2) :
                    2 * lsb_data[2 * k - 1] + lsb_data[2 * k] = v})

\* (diff * diff) / expected for one pair value
ChiSquareTerm(lsb_data, v) ==
    LET expected == FDiv(FromInt(Len(lsb_data) \div 2), FromInt(4))
        diff == FSub(FromInt(PairCount(lsb_data, v)), expected)
    IN  FDiv(FMul(diff, diff), expected)

\* A chi-square whose terms are added only when expected > 0.0.
GuardedChiSquare(lsb_data) ==
    IF Len(lsb_data) \div 2 > 0
    THEN FAdd(FAdd(FAdd(FAdd(FromInt(0), ChiSquareTerm(lsb_data, 0)),
                        ChiSquareTerm(lsb_data, 1)),
                   ChiSquareTerm(lsb_data, 2)),
              ChiSquareTerm(lsb_data, 3))
    ELSE FromInt(0)

\* lsb_analyzer.rs 98-122: the terms are added whatever expected is.
lsb_calculate_chi_square(lsb_data) ==
    FAdd(FAdd(FAdd(FAdd(FromInt(0), ChiSquareTerm(lsb_data, 0)),
                   ChiSquareTerm(lsb_data, 1)),
              ChiSquareTerm(lsb_data, 2)),
         ChiSquareTerm(lsb_data, 3))

BitCount(lsb_data, v) == Cardinality({i \in 1..Len(lsb_data) : lsb_data[i] = v})

\* An entropy that leaves out the term of the one bits.
EntropyOfZeros(lsb_data) ==
    IF Len(lsb_data) = 0 THEN FromInt(0)
    ELSE Num(EntropyTerm(BitCount(lsb_data, 0), Len(lsb_data)),
             Len(lsb_data) * Log2Scale)

\* lsb_analyzer.rs 124-144 and video_frame_analyzer.rs 107-126 (whose test
\* bit < 2 holds for every extracted bit)
calculate_entropy(lsb_data) ==
    LET total == Len(lsb_data)
        zeros == BitCount(lsb_data, 0)
        ones == BitCount(lsb_data, 1)
    IN  IF total = 0 THEN FromInt(0)
        ELSE Num(EntropyTerm(zeros, total) + EntropyTerm(ones, total),
                 total * Log2Scale)

\* (len as f64).sqrt().ceil() as u32
CeilSqrt(n) == CHOOSE r \in 0..n : r * r >= n /\ (r = 0 \/ (r - 1) * (r - 1) < n)

Panic == [status |-> "panic"]

\* lsb_analyzer.rs 78-96.  With no pixel, width is 0: (len + width - 1)
\* overflows (a panic where overflow is checked), and where it wraps the
\* division by width panics.
visualize_lsb_plane(lsb_data) ==
    LET width == CeilSqrt(Len(lsb_data)) IN
    IF width = 0 THEN Panic
    ELSE [status |-> "ok", width |-> width,
          height |-> (Len(lsb_data) + width - 1) \div width]

ChiSquareLimit == Num(100, 1)
EntropyLimit == Num(9, 10)

\* score > 100.0 || ent > 0.9, the three channels alike
LsbSuspicious(chi_square, entropy) ==
    FGt(chi_square, ChiSquareLimit) \/ FGt(entropy, EntropyLimit)

\* LsbAnalyzer::analyze, lsb_analyzer.rs 35-71
LsbAnalyzer_analyze(image) ==
    LET lsb_plane == extract_lsb_plane(image)
        chi_square == lsb_calculate_chi_square(lsb_plane)
        entropy == calculate_entropy(lsb_plane)
        visualized == visualize_lsb_plane(lsb_plane)
    IN  IF visualized.status = "panic" THEN Panic
        ELSE [status |-> "ok",
              lsb_planes |-> <<visualized, visualized, visualized>>,
              chi_square_scores |-> <<chi_square, chi_square, chi_square>>,
              entropy_scores |-> <<entropy, entropy, entropy>>,
              suspicious |-> LsbSuspicious(chi_square, entropy)]

-----------------------------------------------------------------------------
(* VideoFrameAnalyzer (analyzers/video_frame_analyzer.rs) *)

\* video_frame_analyzer.rs 80-105: the terms are added if expected > 0.0
frame_calculate_chi_square(lsb_data) == GuardedChiSquare(lsb_data)

PixelCount(image, v) ==
    Cardinality({i \in 1..Len(image.pixels) : image.pixels[i] = v})

\* video_frame_analyzer.rs 128-157
detect_histogram_anomalies(image) ==
    LET max_count == CHOOSE m \in 0..Len(image.pixels) :
                        /\ \A v \in 0..255 : PixelCount(image, v) <= m
                        /\ (m = 0 \/ \E v \in 0..255 : PixelCount(image, v) = m)
        avg_count == Len(image.pixels) \div 256
    IN  \/ max_count > avg_count * 10
        \/ \E i \in 0..127 :
              Abs(PixelCount(image, 2 * i) - PixelCount(image, 2 * i + 1))
                  > avg_count * 3

get_pixel(image, x, y) == image.pixels[y * image.width + x + 1]

\* gradient > 30.0 at the pixel (x, y)
IsEdge(image, x, y) ==
    LET gx == Abs(get_pixel(image, x + 1, y) - get_pixel(image, x - 1, y))
        gy == Abs(get_pixel(image, x, y + 1) - get_pixel(image, x, y - 1))
    IN  gx * gx + gy * gy > 900

EdgeCount(image) ==
    Cardinality({<<x, y>> \in (1..(image.width - 2)) \X (1..(image.height - 2)) :
                    IsEdge(image, x, y)})

\* video_frame_analyzer.rs 159-185.  `height - 1` and `width - 1` are u32:
\* on 0 they panic where overflow is checked and wrap to u32::MAX where it is
\* not (wraps); behind a wrapped bound get_pixel is out of range as soon as
\* both loops are entered.  `width - 1` is evaluated only inside the outer loop.
calculate_edge_density(image, wraps) ==
    LET w == image.width
        h == image.height
        total_pixels == FromInt(w * h)
        outer_entered == h = 0 \/ h >= 3
        inner_entered == w = 0 \/ w >= 3
    IN  IF h = 0 /\ ~wraps THEN Panic
        ELSE IF outer_entered /\ w = 0 /\ ~wraps THEN Panic
        ELSE IF outer_entered /\ inner_entered /\ (w = 0 \/ h = 0) THEN Panic
        ELSE [status |-> "ok",
              value |-> FDiv(FromInt(IF w = 0 \/ h = 0 THEN 0 ELSE EdgeCount(image)),
                             total_pixels)]

\* VideoFrameAnalyzer::analyze, video_frame_analyzer.rs 39-74
VideoFrameAnalyzer_analyze(image, wraps) ==
    LET lsb_plane == extract_lsb_plane(image)
        chi_square == frame_calculate_chi_square(lsb_plane)
        entropy == calculate_entropy(lsb_plane)
        edge_density == calculate_edge_density(image, wraps)
    IN  IF edge_density.status = "panic" THEN Panic
        ELSE [status |-> "ok",
              lsb_suspicious |-> LsbSuspicious(chi_square, entropy),
              chi_square_scores |-> <<chi_square, chi_square, chi_square>>,
              entropy_scores |-> <<entropy, entropy, entropy>>,
              histogram_anomalies |-> detect_histogram_anomalies(image),
              edge_density |-> edge_density.value]

-----------------------------------------------------------------------------
(* SpecImage: the two image analyzers on every image of a family *)

MaxSide == 3
MaxPattern == 3

\* Grey levels whose difference makes an edge; their low bits are 0 and 1.
PixelPatterns == UNION {[1..n -> {0, 255}] : n \in 1..MaxPattern}

Images ==
    {Image(w, h, Cyclic(p, w * h)) : w \in 0..MaxSide, h \in 0..MaxSide,
                                     p \in PixelPatterns}

InitImage ==
    /\ frontend = "cli"
    /\ pc = "start"
    /\ data = << >>
    /\ ext = NoExt
    /\ deep = << >>
    /\ scan = NoScan
    /\ outcome = NoOutcome
    /\ report = NewReport
    /\ finalized = 0
    /\ it = NoIterator
    /\ loop = NoLoop
    /\ input \in Images
    /\ result = NoResult

AnalyzeLsb ==
    /\ pc = "start"
    /\ result' = LsbAnalyzer_analyze(input)
    /\ pc' = "lsb"
    /\ UNCHANGED <<input, frontend, data, ext, deep, scan, outcome, report,
                   finalized, it, loop>>

AnalyzeVideoFrame ==
    /\ pc = "start"
    /\ \E wraps \in BOOLEAN : result' = VideoFrameAnalyzer_analyze(input, wraps)
    /\ pc' = "frame"
    /\ UNCHANGED <<input, frontend, data, ext, deep, scan, outcome, report,
                   finalized, it, loop>>

NextImage == AnalyzeLsb \/ AnalyzeVideoFrame

SpecImage == InitImage /\ [][NextImage]_vars

ZeroPixels == input.width = 0 \/ input.height = 0

\* C14: no division of the analyzers gives NaN, infinity or a fault: for every
\* image, one-pixel and zero-pixel images included, the analyzers return and
\* their chi-square scores, entropies and edge density are finite, and 0
\* where the divisor is 0.
C14_DivisionsGuarded ==
    pc \in {"lsb", "frame"} =>
        /\ result.status = "ok"
        /\ \A c \in 1..3 :
              /\ IsFinite(result.chi_square_scores[c])
              /\ IsFinite(result.entropy_scores[c])
              /\ Len(input.pixels) < 2 => result.chi_square_scores[c] = FromInt(0)
        /\ pc = "frame" =>
              /\ IsFinite(result.edge_density)
              /\ ZeroPixels => result.edge_density = FromInt(0)

\* C15: for every image whose width or height is 0 the bit-plane analyzer
\* returns an error (MalformedImage), neither a result nor a fault.
C15_ZeroSizeIsMalformed ==
    (pc = "lsb" /\ ZeroPixels) => result.status = "err"

-----------------------------------------------------------------------------
(* SpecBits: calculate_entropy of both analyzers on bit sequences *)

MaxBits == 12
MaxAnyBits == 5

Alternating(first, n) == [i \in 1..n |-> (first + i - 1) % 2]

BitSequences ==
    {[i \in 1..n |-> 0] : n \in 1..MaxBits}
        \cup {Alternating(first, n) : first \in {0, 1}, n \in 2..MaxBits}
        \cup UNION {[1..n -> {0, 1}] : n \in 0..MaxAnyBits}

InitBits ==
    /\ frontend = "cli"
    /\ pc = "start"
    /\ data = << >>
    /\ ext = NoExt
    /\ deep = << >>
    /\ scan = NoScan
    /\ outcome = NoOutcome
    /\ report = NewReport
    /\ finalized = 0
    /\ it = NoIterator
    /\ loop = NoLoop
    /\ input \in {[kind |-> "bits", bits |-> b] : b \in BitSequences}
    /\ result = NoResult

BitPlaneEntropy ==
    /\ pc = "start"
    /\ result' = [status |-> "ok", entropy |-> calculate_entropy(input.bits)]
    /\ pc' = "lsb"
    /\ UNCHANGED <<input, frontend, data, ext, deep, scan, outcome, report,
                   finalized, it, loop>>

FrameEntropy ==
    /\ pc = "start"
    /\ result' = [status |-> "ok", entropy |-> calculate_entropy(input.bits)]
    /\ pc' = "frame"
    /\ UNCHANGED <<input, frontend, data, ext, deep, scan, outcome, report,
                   finalized, it, loop>>

NextBits == BitPlaneEntropy \/ FrameEntropy

SpecBits == InitBits /\ [][NextBits]_vars

AllZero(bits) == Len(bits) >= 1 /\ \A i \in 1..Len(bits) : bits[i] = 0

IsAlternating(bits) ==
    /\ Len(bits) >= 2
    /\ \A i \in 1..(Len(bits) - 1) : bits[i] # bits[i + 1]

\* |e - 1.0| < 0.01
NearOne(e) == FGt(e, Num(99, 100)) /\ FGt(Num(101, 100), e)

EntropyDone == pc \in {"lsb", "frame"}

\* C16, as stated: the entropy of an all-zero sequence is 0, and the entropy of
\* every alternating sequence of length >= 2, odd lengths included, is
\* within 0.01 of 1.0.
C16_AlternatingAnyLength ==
    EntropyDone =>
        /\ AllZero(input.bits) => result.entropy = FromInt(0)
        /\ IsAlternating(input.bits) => NearOne(result.entropy)

\* C16, amended: the entropy of an all-zero sequence is 0, and the entropy of
\* every alternating sequence of even length >= 2 or of odd length >= 9 is
\* within 0.01 of 1.0.
C16_AlternatingEntropy ==
    EntropyDone =>
        /\ AllZero(input.bits) => result.entropy = FromInt(0)
        /\ (IsAlternating(input.bits)
              /\ (Len(input.bits) % 2 = 0 \/ Len(input.bits) >= 9))
           => NearOne(result.entropy)

C16_Witness ==
    /\ EntropyDone
    /\ IsAlternating(input.bits)
    /\ Len(input.bits) % 2 = 1
    /\ Len(input.bits) >= 9
    /\ NearOne(result.entropy)
    /\ result.entropy # FromInt(1)

-----------------------------------------------------------------------------
(* SpectrogramAnalyzer (analyzers/spectrogram_analyzer.rs)                    *)
(*                                                                            *)
(* The audio input is a sine tone of 440 Hz sampled at 44100 Hz, given by    *)
(* its amplitude (in units of 1 / AmpScale) and its number of samples.  A    *)
(* magnitude is an integer in units of 1 / MagScale.                         *)

window_size == 2048
hop_size == 512
sample_rate == 44100
high_freq_threshold == 15000
MagScale == 100
AmpScale == 10

\* The magnitudes of bins 0..53 that the Hann window and the forward FFT of
\* generate_spectrogram give for the tone at amplitude 1.0, rounded; the
\* magnitudes of the bins above are less than 0.005.  Between the frames a
\* magnitude varies by less than 0.04 with the phase of the tone at the start
\* of the window; the table holds the first frame.
ToneTable ==
    <<4, 4, 4, 4, 5, 5, 6, 7, 9, 11, 15, 20, 27, 40, 62, 103, 193, 431, 1332,
      10556, 45270, 41434, 7016, 1114, 382, 176, 96, 58, 37, 26, 18, 14, 10,
      8, 6, 5, 4, 3, 3, 2, 2, 2, 2, 1, 1, 1, 1, 1, 1, 1, 1, 1, 0, 0>>

ToneMagnitude(amplitude, bin) ==
    IF bin < Len(ToneTable) THEN (amplitude * ToneTable[bin + 1]) \div AmpScale
    ELSE 0

Tone(amplitude, len) == [kind |-> "tone", amplitude |-> amplitude, len |-> len]

\* Frames that lie side by side instead of overlapping.
DisjointWindow(frame_idx) ==
    [start |-> frame_idx * window_size,
     end |-> frame_idx * window_size + window_size]

\* The samples that a frame is made of: samples[start..end].
FrameWindow(frame_idx) ==
    [start |-> frame_idx * hop_size, end |-> frame_idx * hop_size + window_size]

\* The loop over frame_idx in 0..num_frames, left at the first frame with
\* end > samples.len().
FrameWindows(len, num_frames) ==
    LET beyond == {i \in 0..(num_frames - 1) : FrameWindow(i).end > len}
        made == IF beyond = {} THEN num_frames
                ELSE CHOOSE i \in beyond : \A j \in beyond : i <= j
    IN  [i \in 1..made |-> FrameWindow(i - 1)]

\* spectrogram_analyzer.rs 75-124; frame[bin + 1] is the magnitude of bin.
\* With fewer samples than the window, `samples.len() - window_size`
\* overflows usize: a panic where overflow is checked; where it wraps (wraps),
\* num_frames is huge and the loop ends in its first pass (end > samples.len()).
generate_spectrogram(samples, wraps) ==
    IF samples.len < window_size
    THEN IF wraps THEN [status |-> "ok", frames |-> << >>, windows |-> << >>]
         ELSE Panic
    ELSE LET num_frames == (samples.len - window_size) \div hop_size + 1
             windows == FrameWindows(samples.len, num_frames)
             magnitudes == [b \in 1..(window_size \div 2) |->
                               ToneMagnitude(samples.amplitude, b - 1)]
         IN  [status |-> "ok", frames |-> [f \in 1..Len(windows) |-> magnitudes],
              windows |-> windows]

RECURSIVE SumOver(_, _, _)
SumOver(f, lo, hi) ==
    IF lo > hi THEN 0
    ELSE IF lo = hi THEN f[lo]
    ELSE LET mid == (lo + hi) \div 2 IN SumOver(f, lo, mid) + SumOver(f, mid + 1, hi)

\* magnitude * magnitude, kept in whole units
Energy(frame) ==
    [b \in DOMAIN frame |-> (frame[b] \div MagScale) * (frame[b] \div MagScale)]

\* spectrogram_analyzer.rs 126-157
analyze_high_frequency_energy(spectrogram) ==
    IF spectrogram = << >> THEN FromInt(0)
    ELSE LET num_bins == Len(spectrogram[1])
             start_bin == (high_freq_threshold * 2 * num_bins) \div sample_rate
             total == [f \in DOMAIN spectrogram |->
                          SumOver(Energy(spectrogram[f]), 1, num_bins)]
             high == [f \in DOMAIN spectrogram |->
                          SumOver(Energy(spectrogram[f]), start_bin + 1, num_bins)]
             total_energy == SumOver(total, 1, Len(spectrogram))
             high_freq_energy == SumOver(high, 1, Len(spectrogram))
         IN  IF total_energy > 0 THEN Num(high_freq_energy, total_energy)
             ELSE FromInt(0)

\* frame[bin] > 0.5 in more than num_frames / 4 consecutive frames
PersistentTone(spectrogram, bin) ==
    LET num_frames == Len(spectrogram)
        run == num_frames \div 4
    IN  \E first \in 1..(num_frames - run) :
            \A f \in first..(first + run) : 2 * spectrogram[f][bin + 1] > MagScale

\* spectrogram_analyzer.rs 213-230: a gradient above 0.3
detect_edges(spectrogram) ==
    Cardinality({<<i, j>> \in (2..Len(spectrogram)) \X (2..Len(spectrogram[1])) :
        \/ 10 * Abs(spectrogram[i][j] - spectrogram[i - 1][j]) > 3 * MagScale
        \/ 10 * Abs(spectrogram[i][j] - spectrogram[i][j - 1]) > 3 * MagScale})

\* max_magnitude > 5.0 * avg_magnitude
IsSpike(frame) ==
    LET sum == SumOver(frame, 1, Len(frame)) IN
    \E b \in DOMAIN frame : frame[b] * Len(frame) > 5 * sum

TonePattern(bin) == <<"Persistent high-frequency tone at bin", bin>>
EdgePattern == <<"High edge density detected (possible hidden image/text)">>
SpikePattern == <<"Unusual energy spikes detected">>

\* spectrogram_analyzer.rs 159-211
detect_patterns(spectrogram) ==
    IF spectrogram = << >> THEN << >>
    ELSE LET num_bins == Len(spectrogram[1])
             num_frames == Len(spectrogram)
             tones == {bin \in (num_bins \div 2)..(num_bins - 1) :
                          PersistentTone(spectrogram, bin)}
             high_energy_frames ==
                 Cardinality({f \in 1..num_frames : IsSpike(spectrogram[f])})
         IN  [i \in 1..Cardinality(tones) |->
                 TonePattern(CHOOSE bin \in tones :
                                Cardinality({c \in tones : c < bin}) = i - 1)]
             \o (IF detect_edges(spectrogram) > (num_frames * num_bins) \div 20
                 THEN <<EdgePattern>> ELSE << >>)
             \o (IF high_energy_frames > num_frames \div 10
                 THEN <<SpikePattern>> ELSE << >>)

\* SpectrogramAnalyzer::analyze, spectrogram_analyzer.rs 39-73
SpectrogramAnalyzer_analyze(samples, wraps) ==
    IF samples.len = 0 THEN [status |-> "err"]
    ELSE LET spectrogram == generate_spectrogram(samples, wraps) IN
         IF spectrogram.status = "panic" THEN Panic
         ELSE LET high_freq_energy == analyze_high_frequency_energy(spectrogram.frames)
                  suspicious_patterns == detect_patterns(spectrogram.frames)
              IN  [status |-> "ok",
                   high_frequency_energy |-> high_freq_energy,
                   suspicious_patterns |-> suspicious_patterns,
                   has_hidden_message |->
                       FGt(high_freq_energy, Num(1, 10)) \/ suspicious_patterns # << >>]

-----------------------------------------------------------------------------
(* SpecTone: the spectrogram analyzer on tones of several amplitudes and     *)
(* durations, the empty input and silence (amplitude 0) included             *)

MaxAmp == 10

Durations == {0, 1000, window_size, 4096, 22050, sample_rate}

Tones == {Tone(a, n) : a \in 0..MaxAmp, n \in Durations}

InitTone ==
    /\ frontend = "cli"
    /\ pc = "start"
    /\ data = << >>
    /\ ext = NoExt
    /\ deep = << >>
    /\ scan = NoScan
    /\ outcome = NoOutcome
    /\ report = NewReport
    /\ finalized = 0
    /\ it = NoIterator
    /\ loop = NoLoop
    /\ input \in Tones
    /\ result = NoResult

AnalyzeSpectrogram ==
    /\ pc = "start"
    /\ \E wraps \in BOOLEAN : result' = SpectrogramAnalyzer_analyze(input, wraps)
    /\ pc' = "spectrogram"
    /\ UNCHANGED <<input, frontend, data, ext, deep, scan, outcome, report,
                   finalized, it, loop>>

NextTone == AnalyzeSpectrogram

SpecTone == InitTone /\ [][NextTone]_vars

\* one second of the tone, at an audible amplitude
OneSecondSine == input.len = sample_rate /\ input.amplitude > 0

\* C17: for one second of a 440 Hz sine sampled at 44100 Hz the analysis
\* succeeds, high_frequency_energy is below 0.01 and suspicious_patterns is
\* empty.
C17_SineIsClean ==
    (pc = "spectrogram" /\ OneSecondSine) =>
        /\ result.status = "ok"
        /\ FGt(Num(1, 100), result.high_frequency_energy)
        /\ result.suspicious_patterns = << >>

-----------------------------------------------------------------------------
(* The acceptance rule of manual matches *)

\* The 4 bytes before the offset are all 0x00 or all 0xFF, or the offset is a
\* multiple of 512.
AcceptanceRule(bytes, offset) ==
    \/ /\ offset >= 4
       /\ \/ \A k \in 1..4 : bytes[offset - 4 + k] = 0
          \/ \A k \in 1..4 : bytes[offset - 4 + k] = 255
    \/ offset % SectorSmall = 0

\* The matches of the manual scan that the scan result holds.
ManualMatches ==
    LET manual == manual_signature_scan(data) IN
    {manual[i] : i \in 1..Len(manual)}
        \cap {scan.embedded_files[i] : i \in 1..Len(scan.embedded_files)}

\* C18: every match that the manual scan records at an offset > 0, the
\* RIFF-family matches included, satisfies the acceptance rule.
C18_ManualMatchesAccepted ==
    (pc = "scanned" /\ scan.status = "ok") =>
        \A match \in ManualMatches :
            match.offset > 0 => AcceptanceRule(data, match.offset)

-----------------------------------------------------------------------------
(* The states of VideoFrameIterator: decoding, flushing, done *)

\* No packet is left: the container is read to its end and every buffered
\* packet has been sent.
NoPacketLeft(s) == s.packets_exhausted /\ s.packet_index >= Len(s.packet_buffer)

\* flushing is set only when no packet is left.
C19_EntersFlushing ==
    [][(pc = "frames" /\ ~it.flushing /\ it'.flushing) =>
          /\ NoPacketLeft(it')
          /\ it'.input = << >>
          /\ it'.sent = it.sent]_vars

\* Once set, flushing stays set, and no packet is loaded or sent.
C19_StaysFlushing ==
    [][(pc = "frames" /\ it.flushing) =>
          /\ it'.flushing
          /\ it'.sent = it.sent
          /\ it'.input = it.input
          /\ it'.packet_buffer = it.packet_buffer
          /\ it'.packet_index = it.packet_index
          /\ it'.packets_exhausted]_vars

\* next returns None only while flushing and when the decoder has no frame.
C19_NoneOnlyFlushed ==
    [][(pc = "frames" /\ pc' = "finalize") =>
          /\ it.flushing
          /\ decode_frame(it).result = "none"
          /\ NoPacketLeft(it)]_vars

\* After None, another call of next returns None again.
C19_Done ==
    (InFrameLoop /\ pc \in {"finalize", "done", "end"}) =>
        /\ loop.item = "none"
        /\ it.flushing
        /\ next(it).item = "none"
        /\ next(it).self = it

\* C19: the iterator is the machine decoding -> flushing -> done: flushing is
\* entered only when no packet is left, it is never cleared and no packet is
\* loaded or sent after it, next returns None only while flushing and when
\* the decoder has no frame left, and after the first None every later call
\* returns None.
C19_ThreeStateMachine ==
    C19_EntersFlushing /\ C19_StaysFlushing /\ C19_NoneOnlyFlushed /\ []C19_Done

\* An iterator that is done after two calls of load_packets, with frames that
\* the decoder held back until the flush and one error item.
C19_Witness ==
    /\ InFrameLoop
    /\ pc = "finalize"
    /\ it.flushing
    /\ Len(it.sent) > LoadCount
    /\ it.yielded_ok >= 2
    /\ it.yielded_err >= 1

-----------------------------------------------------------------------------
(* The sampling of decoded frames *)

\* The loop body is about to handle a decoded frame, with a sampling rate
\* that can divide.
AtDecodedFrame == pc = "item" /\ loop.item = "ok" /\ loop.video_sample_rate > 0

\* C20: counting the decoded frames from 0, the k-th decoded frame is analysed
\* if and only if k mod N = 0, whatever decode errors lie between the frames.
C20_EveryNthDecodedFrame ==
    [][AtDecodedFrame =>
          (loop'.analysed # loop.analysed
              <=> loop.frame_count % loop.video_sample_rate = 0)]_vars

-----------------------------------------------------------------------------
(* The frame analyzer against the bit-plane analyzer *)

\* a == b on f64: NaN equals nothing
FEq(a, b) == a.kind # "nan" /\ b.kind # "nan" /\ a = b

\* C21: on every pixel grid on which both analyzers return, grids with fewer
\* than 2 pixels included, the chi-square and entropy of each channel and the
\* LSB suspicious flag of the frame analyzer equal those of the bit-plane
\* analyzer.
C21_FrameEqualsBitPlane ==
    (pc = "frame" /\ result.status = "ok"
        /\ LsbAnalyzer_analyze(input).status = "ok") =>
        LET lsb == LsbAnalyzer_analyze(input) IN
        /\ \A c \in 1..3 :
              /\ FEq(result.chi_square_scores[c], lsb.chi_square_scores[c])
              /\ FEq(result.entropy_scores[c], lsb.entropy_scores[c])
        /\ result.lsb_suspicious = lsb.suspicious

-----------------------------------------------------------------------------
(* SpecHistogram: detect_histogram_anomalies on frames of up to 32 pixels *)

MaxFrameWidth == 8
MaxFrameHeight == 4
MaxStep == 2

\* Grey levels that rise by step from pixel to pixel.
Ramp(step, n) == [i \in 1..n |-> (step * (i - 1)) % 256]

Frames ==
    {Image(w, h, Ramp(step, w * h)) :
        w \in 0..MaxFrameWidth, h \in 1..MaxFrameHeight, step \in 0..MaxStep}

InitHistogram ==
    /\ frontend = "cli"
    /\ pc = "start"
    /\ data = << >>
    /\ ext = NoExt
    /\ deep = << >>
    /\ scan = NoScan
    /\ outcome = NoOutcome
    /\ report = NewReport
    /\ finalized = 0
    /\ it = NoIterator
    /\ loop = NoLoop
    /\ input \in Frames
    /\ result = NoResult

DetectHistogram ==
    /\ pc = "start"
    /\ result' = [status |-> "ok",
                  histogram_anomalies |-> detect_histogram_anomalies(input)]
    /\ pc' = "histogram"
    /\ UNCHANGED <<input, frontend, data, ext, deep, scan, outcome, report,
                   finalized, it, loop>>

NextHistogram == DetectHistogram

SpecHistogram == InitHistogram /\ [][NextHistogram]_vars

\* The rule with the mean bin count as the quotient total / 256, not rounded:
\* count > 10 * total / 256, or an even/odd pair differs by more than
\* 3 * total / 256.
UnroundedRule(image) ==
    LET total == Len(image.pixels) IN
    \/ \E v \in 0..255 : PixelCount(image, v) * 256 > 10 * total
    \/ \E i \in 0..127 :
          Abs(PixelCount(image, 2 * i) - PixelCount(image, 2 * i + 1)) * 256
              > 3 * total

\* C22: a frame is a histogram anomaly if and only if, in some channel, the
\* largest bin count exceeds 10 times the mean bin count or an even/odd bin
\* pair differs by more than 3 times the mean bin count, the mean being
\* total / 256 without rounding; for every frame size.
C22_HistogramRule ==
    pc = "histogram" => (result.histogram_anomalies <=> UnroundedRule(input))

-----------------------------------------------------------------------------
(* SpecFrames: generate_spectrogram on sample sequences of many lengths *)

MaxExtra == 1100

\* Every length from 1 short of a window to MaxExtra past it, and the
\* durations of SpecTone.
Lengths == ((window_size - 1)..(window_size + MaxExtra)) \cup Durations

InitFrames ==
    /\ frontend = "cli"
    /\ pc = "start"
    /\ data = << >>
    /\ ext = NoExt
    /\ deep = << >>
    /\ scan = NoScan
    /\ outcome = NoOutcome
    /\ report = NewReport
    /\ finalized = 0
    /\ it = NoIterator
    /\ loop = NoLoop
    /\ input \in {Tone(AmpScale, len) : len \in Lengths}
    /\ result = NoResult

\* The spectrogram is kept as its number of frames and their windows.
GenerateSpectrogram ==
    /\ pc = "start"
    /\ \E wraps \in BOOLEAN :
          LET spectrogram == generate_spectrogram(input, wraps) IN
          result' = IF spectrogram.status = "panic" THEN Panic
                    ELSE [status |-> "ok", num_frames |-> Len(spectrogram.frames),
                          windows |-> spectrogram.windows]
    /\ pc' = "generated"
    /\ UNCHANGED <<input, frontend, data, ext, deep, scan, outcome, report,
                   finalized, it, loop>>

NextFrames == GenerateSpectrogram

SpecFrames == InitFrames /\ [][NextFrames]_vars

\* C23: for len >= window_size the spectrogram has
\* floor((len - window_size) / hop_size) + 1 frames, frame i covers the
\* samples [i * hop_size, i * hop_size + window_size), and every frame lies
\* inside the sample sequence.
C23_FrameCount ==
    (pc = "generated" /\ input.len >= window_size) =>
        /\ result.status = "ok"
        /\ result.num_frames = (input.len - window_size) \div hop_size + 1
        /\ Len(result.windows) = result.num_frames
        /\ \A i \in 0..(result.num_frames - 1) :
              /\ result.windows[i + 1].start = i * hop_size
              /\ result.windows[i + 1].end = i * hop_size + window_size
              /\ result.windows[i + 1].end <= input.len

\* A sequence one sample longer than three frames need: three frames, the
\* last of which ends before the end of the samples.
C23_Witness ==
    /\ pc = "generated"
    /\ input.len = window_size + 2 * hop_size + 1
    /\ result.status = "ok"
    /\ result.num_frames = 3
    /\ result.windows[3].end < input.len

-----------------------------------------------------------------------------
(* Sample sequences shorter than one window *)

\* C27: for every non-empty sample sequence, those shorter than window_size
\* included, the analysis returns a result; a sequence shorter than one
\* window gives no frame, high_frequency_energy 0 and no pattern.
C27_ShortInputReturns ==
    (pc = "spectrogram" /\ input.len > 0) =>
        /\ result.status = "ok"
        /\ input.len < window_size =>
              /\ result.high_frequency_energy = FromInt(0)
              /\ result.suspicious_patterns = << >>
              /\ ~result.has_hidden_message

-----------------------------------------------------------------------------
(* The packets handed to the decoder *)

\* C24: over any sequence of next calls every packet of the video stream is
\* passed to the decoder once and in container order, also after send_packet
\* reported an error, and no packet of another stream is passed: the
\* positions of the packets sent so far rise strictly, and only packets of
\* the video stream are buffered for sending.
C24_EachPacketSentOnce ==
    (InFrameLoop /\ pc \in {"frames", "item", "finalize"}) =>
        /\ \A i, j \in 1..Len(it.sent) : i < j => it.sent[i] < it.sent[j]
        /\ \A i \in 1..Len(it.packet_buffer) : IsVideoPacket(it.packet_buffer[i])

-----------------------------------------------------------------------------
(* The divisor of the sampling test *)

\* C25: for every video_sample_rate the front ends accept, 0 included, the
\* sampling test idx % video_sample_rate is never evaluated with a zero
\* divisor and the frame loop does not fault.
C25_SamplingNeverDividesByZero ==
    InFrameLoop =>
        /\ (pc = "item" /\ loop.item = "ok") => loop.video_sample_rate # 0
        /\ pc # "panic"

-----------------------------------------------------------------------------
(* Reads inside the buffer *)

\* C26: on every non-empty buffer the scan reads no index at or past the end
\* of the buffer: it returns a result, neither an error nor a fault; the
\* buffers that start with RIFF and are 9 to 11 bytes long get a primary
\* format.
C26_NoReadPastEnd ==
    (pc = "scanned" /\ data # << >>) => scan.status = "ok"

-----------------------------------------------------------------------------
(* The two aggregators against each other *)

\* The verdict of the other front end's aggregator on the same analyses.
OtherSummary ==
    finalize_summary(IF frontend = "cli" THEN "api" ELSE "cli", report).summary

\* Image, audio, text and unknown results have the same fields in both front
\* ends; the video result of the API has a field that the CLI's has not.
SharedFormatResult == report.format_specific_analysis.type # "Video"

\* C28: on the same magic-bytes report and the same format-specific result
\* the two aggregators give the same steganography_detected and the same
\* confidence_level.
C28_AggregatorsAgree ==
    (finalized = 1 /\ SharedFormatResult) =>
        /\ report.summary.steganography_detected
              = OtherSummary.steganography_detected
        /\ report.summary.confidence_level = OtherSummary.confidence_level

\* C29: whichever aggregator (frontend = "cli" or "api") has written the
\* summary, steganography_detected = true comes with a non-empty indicator
\* list, so its confidence level is never "low".
C29_DetectedHasIndicator ==
    (finalized = 1 /\ report.summary.steganography_detected) =>
        /\ report.summary.threat_indicators # << >>
        /\ report.summary.confidence_level # "low"

\* The API aggregator has flagged a video on its suspicious frames alone.
C29_Witness ==
    /\ finalized = 1
    /\ frontend = "api"
    /\ report.summary.steganography_detected
    /\ report.format_specific_analysis.type = "Video"
    /\ report.format_specific_analysis.suspicious_frames # << >>
    /\ Len(report.summary.threat_indicators) = 1
    /\ report.summary.confidence_level = "medium"

-----------------------------------------------------------------------------
(* Manual matches and complete-file signatures *)

\* The findings of the scan result as a set.
Findings == {scan.suspicious_findings[i] : i \in 1..Len(scan.suspicious_findings)}

\* C30: every match that the manual scan records at an offset > 0 counts as a
\* complete-header match: has_suspicious_data is true and the findings hold
\* its 'Complete file signature found' entry.
C30_ManualMatchIsComplete ==
    (pc = "scanned" /\ scan.status = "ok") =>
        \A match \in ManualMatches :
            match.offset > 0 =>
                /\ scan.has_suspicious_data
                /\ CompleteFinding(match) \in Findings

=============================================================================
